---- MODULE Spec2Model ----
(***************************************************************************)
(* A model of the infinite-world chunk store of pymclevel (mclevel.py):    *)
(* InfdevChunk's load / decompress / compress / save lifecycle, its nibble *)
(* packing, and the MCInfdevOldLevel operations that own _presentChunks.   *)
(* Arrays are indexed <<x, z, y>> as in the source; the chunk edge (16 in  *)
(* the source) and the height (128) are scaled down by the bounds below.   *)
(***************************************************************************)
EXTENDS Integers, Sequences, FiniteSets, TLC

\* ------------------------------------------------------------------ bounds
\* edge of a chunk's footprint (16 in the source: x>>4, x&0xf)
ChunkSize == 2
\* packed bytes per column (64 in the source); Height is twice this
HalfHeight == 1
\* the edges the box setters are tried with run from 1 - BoxSpan to BoxSpan
BoxSpan == 2
\* the integers the directory labels are computed for run from -HashSpan to
\* HashSpan, past 64 on both sides
HashSpan == 70
\* packed bytes of the array the nibble round trip is tried on
PackLen == 1

\* ------------------------------------------------------- program constants
Byte == 256
NibbleMask == 15

Height == 2 * HalfHeight

\* the chunk coordinates the store operations are tried on; the boxes and
\* points below also reach the coordinate (-1,0), which is never present
Coords == {<<0, 0>>}

\* block ids fillBlocks is tried with: 5 is wood planks (0, air, is what a
\* created chunk holds)
BlockTypes == {5}
\* block data fillBlocks is tried with: 2 fits in a nibble and has bit 0
\* clear, 17 does not fit in a nibble
DataValues == {2, 17}

\* materials.lightAbsorption: air and torches (50) let light through, leaves
\* (18) take 1, the default is opaque
lightAbsorption ==
    [b \in 0 .. Byte - 1 |-> IF b \in {0, 50} THEN 0 ELSE IF b = 18 THEN 1 ELSE 15]

\* ---------------------------------------------------------------- values
None == [kind |-> "None"]

Columns == (0 .. ChunkSize - 1) \X (0 .. ChunkSize - 1)
Cells == (0 .. ChunkSize - 1) \X (0 .. ChunkSize - 1) \X (0 .. Height - 1)
PackedCells == (0 .. ChunkSize - 1) \X (0 .. ChunkSize - 1) \X (0 .. HalfHeight - 1)

zeros(dom) == [i \in dom |-> 0]

\* numpy uint8 arithmetic
RECURSIVE BitOr(_, _)
BitOr(a, b) ==
    IF a = 0 THEN b
    ELSE IF b = 0 THEN a
    ELSE (IF (a % 2 = 1) \/ (b % 2 = 1) THEN 1 ELSE 0) + 2 * BitOr(a \div 2, b \div 2)

\* a plausible slip: the nibbles are taken in the other order
unpackChunkDataSwapped(p) ==
    [c \in {<<q[1], q[2], 2 * q[3] + j>> : q \in DOMAIN p, j \in 0 .. 1} |->
        IF c[3] % 2 = 1
        THEN p[<<c[1], c[2], c[3] \div 2>>] % (NibbleMask + 1)
        ELSE p[<<c[1], c[2], c[3] \div 2>>] \div 16]

\* InfdevChunk.unpackChunkData for one array: packed byte k of a column gives
\* cells 2k (low nibble) and 2k+1 (the byte shifted right by 4)
unpackChunkData(p) ==
    [c \in {<<q[1], q[2], 2 * q[3] + j>> : q \in DOMAIN p, j \in 0 .. 1} |->
        IF c[3] % 2 = 0
        THEN p[<<c[1], c[2], c[3] \div 2>>] % (NibbleMask + 1)
        ELSE p[<<c[1], c[2], c[3] \div 2>>] \div 16]

\* InfdevChunk.packChunkData for one array: cell 2k+1 is shifted left by 4 in
\* uint8 and or-ed with the whole of cell 2k
packChunkData(u) ==
    [q \in {<<c[1], c[2], c[3] \div 2>> : c \in DOMAIN u} |->
        BitOr((u[<<q[1], q[2], 2 * q[3] + 1>>] * 16) % Byte, u[<<q[1], q[2], 2 * q[3]>>])]


\* ------------------------------------------------- tag trees and blobs
\* the tag tree InfdevChunk.create builds, after shapeChunkData and
\* unpackChunkData: every array zero, the nibble arrays at full height
createTree(c) ==
    [kind |-> "tree",
     TerrainPopulated |-> 1, xPos |-> c[1], zPos |-> c[2], LastUpdate |-> 0,
     Blocks |-> zeros(Cells),
     Data |-> unpackChunkData(zeros(PackedCells)),
     SkyLight |-> unpackChunkData(zeros(PackedCells)),
     BlockLight |-> unpackChunkData(zeros(PackedCells)),
     HeightMap |-> zeros(Columns)]

\* a tag tree that parses but lacks the chunk's fields (shapeChunkData
\* raises KeyError on it)
NoFieldsTree == [kind |-> "nofields"]

\* bytes that nbt.load rejects (also a truncated file)
Garbage == [kind |-> "garbage"]

\* the three nibble arrays of a tree, packed or unpacked together
packTree(t) ==
    [t EXCEPT !.SkyLight = packChunkData(@),
              !.BlockLight = packChunkData(@),
              !.Data = packChunkData(@)]

unpackTree(t) ==
    [t EXCEPT !.SkyLight = unpackChunkData(@),
              !.BlockLight = unpackChunkData(@),
              !.Data = unpackChunkData(@)]

\* root_tag.save through gzip, and its inverse gzip read + nbt.load
Serialize(t) == [kind |-> "blob", tag |-> t]

\* ------------------------------------------------------- InfdevChunk
\* InfdevChunk.__init__ with create = False
newChunk ==
    [compressedTag |-> None, root_tag |-> None,
     dirty |-> FALSE, needsCompression |-> FALSE, needsLighting |-> FALSE]

\* result of a method: the chunk afterwards and the exception raised
R(ch, exc) == [ch |-> ch, exc |-> exc]

\* MCLevel.decompress
decompress(ch) ==
    IF ch.root_tag # None THEN ch
    ELSE IF ch.compressedTag = None THEN ch
    ELSE IF ch.compressedTag.kind # "blob" THEN ch
    ELSE IF ch.compressedTag.tag.kind # "tree"
         THEN [ch EXCEPT !.root_tag = ch.compressedTag.tag]
    ELSE [ch EXCEPT !.root_tag = unpackTree(ch.compressedTag.tag)]

\* a plausible slip: the array form is kept after the blob has been built
compressKeepsArrays(ch) ==
    IF ch.root_tag = None THEN R(ch, "None")
    ELSE IF ch.needsCompression \/ ch.compressedTag = None
         THEN IF ch.root_tag.kind # "tree" THEN R(ch, "KeyError")
              ELSE R([ch EXCEPT !.compressedTag = Serialize(packTree(ch.root_tag)),
                                !.needsCompression = FALSE], "None")
    ELSE R(ch, "None")

\* a plausible slip: an existing blob is taken as current whatever
\* needsCompression says
compressStale(ch) ==
    IF ch.root_tag = None THEN R(ch, "None")
    ELSE IF ch.compressedTag = None
         THEN IF ch.root_tag.kind # "tree" THEN R(ch, "KeyError")
              ELSE R([ch EXCEPT !.compressedTag = Serialize(packTree(ch.root_tag)),
                                !.needsCompression = FALSE,
                                !.root_tag = None], "None")
    ELSE R([ch EXCEPT !.root_tag = None], "None")

\* MCLevel.compress
compress(ch) ==
    IF ch.root_tag = None THEN R(ch, "None")
    ELSE IF ch.needsCompression \/ ch.compressedTag = None
         THEN IF ch.root_tag.kind # "tree" THEN R(ch, "KeyError")
              ELSE R([ch EXCEPT !.compressedTag = Serialize(packTree(ch.root_tag)),
                                !.needsCompression = FALSE,
                                !.root_tag = None], "None")
    ELSE R([ch EXCEPT !.root_tag = None], "None")

\* a plausible slip: the blob is read but never decompressed
loadWithoutDecompress(ch, file) ==
    IF ch.compressedTag = None /\ file = None THEN R(ch, "IOError")
    ELSE IF ch.compressedTag = None THEN R([ch EXCEPT !.compressedTag = file], "None")
    ELSE R(ch, "None")

\* InfdevChunk.load; file is the content of the chunk's file, None if missing
load(ch, file) ==
    IF ch.compressedTag = None /\ file = None THEN R(ch, "IOError")
    ELSE LET c1 == IF ch.compressedTag = None
                   THEN [ch EXCEPT !.compressedTag = file] ELSE ch
         IN R(decompress(c1), "None")

\* what a decompress_first accessor (Blocks, Data, HeightMap, ...) raises
accessExc(ch) ==
    LET d == decompress(ch)
    IN IF d.root_tag = None THEN "TypeError"
       ELSE IF d.root_tag.kind # "tree" THEN "KeyError"
       ELSE "None"

Max(a, b) == IF a >= b THEN a ELSE b

\* InfdevChunk.generateHeightMap on a well-formed tree: the last (highest)
\* absorbing y of each column, then one added to every entry
generateHeightMap(t) ==
    [t EXCEPT !.HeightMap =
        [zx \in Columns |->
            LET ys == {y \in 0 .. Height - 1 :
                          lightAbsorption[t.Blocks[<<zx[2], zx[1], y>>]] # 0}
            IN (IF ys = {} THEN 0 ELSE CHOOSE y \in ys : \A w \in ys : w <= y) + 1]]

\* lv of genFastLights after the loop body at y, 0 once the loop has broken
RECURSIVE fastLv(_, _, _, _)
fastLv(t, x, z, y) ==
    IF y >= t.HeightMap[<<z, x>>] THEN 15
    ELSE LET prev == fastLv(t, x, z, y + 1)
         IN IF prev <= 0 THEN 0
            ELSE prev - Max(lightAbsorption[t.Blocks[<<x, z, y>>]], 1)

\* InfdevChunk.genFastLights on a well-formed tree
genFastLights(t) ==
    [t EXCEPT !.SkyLight =
        [c \in Cells |->
            IF c[3] >= t.HeightMap[<<c[2], c[1]>>] THEN 15
            ELSE Max(fastLv(t, c[1], c[2], c[3]), 0)]]

\* InfdevChunk.chunkChanged with calcLighting = True
chunkChanged(ch) ==
    IF ch.root_tag = None /\ ch.compressedTag = None THEN R(ch, "None")
    ELSE LET c1 == [ch EXCEPT !.needsCompression = (ch.root_tag # None) \/ @,
                              !.dirty = TRUE, !.needsLighting = TRUE]
             c2 == decompress(c1)
         IN IF accessExc(c2) # "None" THEN R(c2, accessExc(c2))
            ELSE R([c2 EXCEPT !.root_tag = genFastLights(generateHeightMap(@))], "None")


\* outcomes of opening and writing the chunk file in InfdevChunk.save
WriteOutcomes == {"ok", "openfail", "writefail"}

\* the chunk file and its .old sibling after the rename / write / restore /
\* remove steps of save; replaces is whether os.rename replaces an existing
\* destination (POSIX) or raises (Windows)
saveSteps(blob, file, outcome, replaces) ==
    LET \* os.rename(filename, filename + ".old"); raises when there is no file
        s1 == IF file # None THEN [file |-> None, old |-> file]
              ELSE [file |-> None, old |-> None]
        \* file(filename, 'wb'); write; close: a failed open creates nothing, a
        \* failed write leaves a partial file
        s2 == IF outcome = "ok" THEN [s1 EXCEPT !.file = blob]
              ELSE IF outcome = "openfail" THEN s1
              ELSE [s1 EXCEPT !.file = Garbage]
        \* except IOError: os.rename(filename + ".old", filename); raises when
        \* there is no .old, or when the file exists and rename does not replace
        s3 == IF outcome = "ok" THEN s2
              ELSE IF s2.old # None /\ (s2.file = None \/ replaces)
                   THEN [file |-> s2.old, old |-> None]
              ELSE s2
        \* os.remove(filename + ".old"), whatever happened before
    IN [s3 EXCEPT !.old = None]

\* the content of the chunk file once the write steps of save are over
writeFile(ch, file, outcome, replaces) ==
    saveSteps(ch.compressedTag, file, outcome, replaces).file

\* a plausible slip: the file is written whether or not the chunk is dirty
saveAlways(ch, file, outcome, replaces) ==
    LET r == compress(ch)
    IN IF r.exc # "None" THEN [ch |-> ch, file |-> file, exc |-> r.exc]
       ELSE [ch |-> [r.ch EXCEPT !.dirty = FALSE],
             file |-> writeFile(r.ch, file, outcome, replaces),
             exc |-> "None"]

\* InfdevChunk.save
save(ch, file, outcome, replaces) ==
    LET r == compress(ch)
    IN IF r.exc # "None" THEN [ch |-> ch, file |-> file, exc |-> r.exc]
       ELSE IF ~r.ch.dirty THEN [ch |-> r.ch, file |-> file, exc |-> "None"]
       ELSE [ch |-> [r.ch EXCEPT !.dirty = FALSE],
             file |-> writeFile(r.ch, file, outcome, replaces),
             exc |-> "None"]

\* InfdevChunk.__init__ with create = True, i.e. InfdevChunk.create: the zero
\* tree is built, shaped and unpacked, and save() is called on it
create(c, file, outcome, replaces) ==
    save([newChunk EXCEPT !.root_tag = createTree(c)], file, outcome, replaces)

\* InfdevChunk.remove
remove(ch, file) ==
    IF file = None THEN [ch |-> ch, file |-> file, exc |-> "OSError"]
    ELSE [ch |-> [ch EXCEPT !.root_tag = None], file |-> None, exc |-> "None"]

\* ------------------------------------------------------------ BoundingBox
Box(origin, size) == [origin |-> origin, size |-> size]

\* x >> 4 and x << 4 for the scaled chunk edge
ChunkOf(x) == x \div ChunkSize
ChunkBase(cx) == cx * ChunkSize
InChunk(x) == x % ChunkSize

minx(b) == b.origin[1]
miny(b) == b.origin[2]
minz(b) == b.origin[3]
maxx(b) == b.origin[1] + b.size[1]
maxy(b) == b.origin[2] + b.size[2]
maxz(b) == b.origin[3] + b.size[3]
mincx(b) == ChunkOf(b.origin[1])
mincz(b) == ChunkOf(b.origin[3])
maxcx(b) == ChunkOf(b.origin[1] + b.size[1] - 1) + 1
maxcz(b) == ChunkOf(b.origin[3] + b.size[3] - 1) + 1

\* BoundingBox.chunkPositions as a sequence: cx outer, cz inner
chunkPositions(b) ==
    LET nx == Max(maxcx(b) - mincx(b), 0)
        nz == Max(maxcz(b) - mincz(b), 0)
    IN [i \in 1 .. nx * nz |->
           <<mincx(b) + ((i - 1) \div nz), mincz(b) + ((i - 1) % nz)>>]

\* the indices a Python slice(lo, hi) selects on an axis of length n
PySlice(lo, hi, n) ==
    LET clip(v) == IF v < 0 THEN Max(v + n, 0) ELSE IF v > n THEN n ELSE v
    IN clip(lo) .. clip(hi) - 1


\* a plausible slip: the origin moves and the size stays
setMinxKeepsSize(b, x) == [b EXCEPT !.origin[1] = x]

\* BoundingBox.setMinx / setMiny / setMinz: the size gives up what the origin
\* gains, with no clamp
setMinx(b, x) == [origin |-> [b.origin EXCEPT ![1] = x],
                  size |-> [b.size EXCEPT ![1] = @ - (x - b.origin[1])]]
setMiny(b, y) == [origin |-> [b.origin EXCEPT ![2] = y],
                  size |-> [b.size EXCEPT ![2] = @ - (y - b.origin[2])]]
setMinz(b, z) == [origin |-> [b.origin EXCEPT ![3] = z],
                  size |-> [b.size EXCEPT ![3] = @ - (z - b.origin[3])]]

\* BoundingBox.setMaxx / setMaxy / setMaxz: an edge below the origin is taken
\* as the origin
setMaxx(b, x) == [b EXCEPT !.size[1] = Max(x, b.origin[1]) - b.origin[1]]
setMaxy(b, y) == [b EXCEPT !.size[2] = Max(y, b.origin[2]) - b.origin[2]]
setMaxz(b, z) == [b EXCEPT !.size[3] = Max(z, b.origin[3]) - b.origin[3]]


\* -------------------------------------------------------- chunk file names
base36alphabet ==
    <<"0", "1", "2", "3", "4", "5", "6", "7", "8", "9", "a", "b", "c", "d",
      "e", "f", "g", "h", "i", "j", "k", "l", "m", "n", "o", "p", "q", "r",
      "s", "t", "u", "v", "w", "x", "y", "z">>

\* str.index on the alphabet (0-based)
alphaIndex(ch) == (CHOOSE i \in 1 .. 36 : base36alphabet[i] = ch) - 1

\* the digits of a positive n, most significant first
RECURSIVE base36digits(_)
base36digits(n) ==
    IF n = 0 THEN <<>>
    ELSE Append(base36digits(n \div 36), base36alphabet[(n % 36) + 1])

\* MCInfdevOldLevel.base36
base36(n) ==
    IF n = 0 THEN <<"0">>
    ELSE IF n < 0 THEN <<"-">> \o base36digits(-n)
    ELSE base36digits(n)

\* the while loop of decbase36: stops at the first letter off the alphabet
RECURSIVE decdigits(_, _)
decdigits(s, n) ==
    IF Len(s) = 0 THEN n
    ELSE IF \A i \in 1 .. 36 : base36alphabet[i] # Head(s) THEN n
    ELSE decdigits(Tail(s), n * 36 + alphaIndex(Head(s)))

\* a plausible slip: the sign of the field is dropped
decbase36Unsigned(s) ==
    IF Head(s) = "-" THEN decdigits(Tail(s), 0) ELSE decdigits(s, 0)

\* MCInfdevOldLevel.decbase36
decbase36(s) ==
    IF Head(s) = "-" THEN -decdigits(Tail(s), 0) ELSE decdigits(s, 0)

\* a plausible slip: the leading "1" of the labels of 36..63 is dropped
dirhashNoCarry(n) ==
    LET m == n % 64
    IN IF m >= 36 THEN <<base36alphabet[m - 36 + 1]>>
       ELSE <<base36alphabet[m + 1]>>

\* MCInfdevOldLevel.dirhash
dirhash(n) ==
    LET m == n % 64
    IN IF m >= 36 THEN <<"1", base36alphabet[m - 36 + 1]>>
       ELSE <<base36alphabet[m + 1]>>

\* the list MCInfdevOldLevel.__init__ builds, and dirhashlookup, which
\* replaces dirhash on the instance once the list is built
dirhashes == [i \in 1 .. 64 |-> dirhash(i - 1)]
dirhashlookup(n) == dirhashes[(n % 64) + 1]

\* MCInfdevOldLevel.chunkFilename: the two directories and the two fields of
\* the name c.<x>.<z>.dat
chunkFilename(x, z) == <<dirhash(x), dirhash(z), base36(x), base36(z)>>

fileOf(c) == chunkFilename(c[1], c[2])

FileNames == {fileOf(c) : c \in Coords}

\* -------------------------------------------------------------- the state
VARIABLES
    presentChunks,  \* MCInfdevOldLevel._presentChunks: coordinate -> InfdevChunk
    files,          \* the world directory: file name -> content, None if no file
    ret,            \* the last call: its name, argument, exception and value
    expect,         \* per coordinate, the Blocks last written through fillBlocks
    stage,          \* per coordinate, how far those blocks got: "none",
                    \* "marked", "saved" (written to the file), "reopened"
    nib,            \* the nibble array the pack / unpack round trip is tried on
    box,            \* a BoundingBox, the last call on it and what it returned
    hash            \* an integer and the directory labels computed for it

vars == <<presentChunks, files, ret, expect, stage, nib, box, hash>>

Ret(op, c, exc, val) == [op |-> op, c |-> c, exc |-> exc, val |-> val]

\* dict assignment and del
Put(pc, c, ch) == [k \in DOMAIN pc \cup {c} |-> IF k = c THEN ch ELSE pc[k]]
Del(pc, c) == [k \in DOMAIN pc \ {c} |-> pc[k]]

\* MCInfdevOldLevel.preloadChunkPaths over the hashed tree: every file named
\* c.<a>.<b>.dat in a directory pair of dirhashes registers an unloaded chunk
\* at the decoded coordinate
preloadChunkPaths(fs) ==
    LET labels == {dirhashes[i] : i \in DOMAIN dirhashes}
        found == {<<decbase36(f[3]), decbase36(f[4])>> :
                     f \in {g \in DOMAIN fs : /\ fs[g] # None
                                              /\ g[1] \in labels
                                              /\ g[2] \in labels}}
    IN [c \in found |-> newChunk]

\* no box and no integer under test
noBox == [op |-> "idle"]
noHash == [op |-> "idle"]

\* a new world directory: MCInfdevOldLevel(filename) has found no chunk file
Init ==
    /\ files = [f \in FileNames |-> None]
    /\ presentChunks = preloadChunkPaths(files)
    /\ ret = Ret("init", <<>>, "None", 0)
    /\ expect = [c \in Coords |-> zeros(Cells)]
    /\ stage = [c \in Coords |-> "none"]
    /\ nib = [at |-> "idle"]
    /\ box = noBox
    /\ hash = noHash


\* ------------------------------------------------------ MCInfdevOldLevel
\* the boxes the bulk operations are tried on: chunk (0,0) whole, and a strip
\* above y = 0 across the border of chunks (-1,0) and (0,0)
Boxes ==
    {Box(<<0, 0, 0>>, <<ChunkSize, Height, ChunkSize>>),
     Box(<<-1, 1, 0>>, <<2, Height - 1, 1>>)}

\* the world coordinates blockAt is tried on: two cells inside the strip and
\* outside it, the far corner, a cell above the world and one in chunk (-1,0)
Points ==
    {<<0, 0, 0>>, <<0, Height - 1, 0>>, <<ChunkSize - 1, Height - 1, ChunkSize - 1>>,
     <<0, Height, 0>>, <<-1, Height - 1, 0>>}

\* a plausible slip: a chunk that is present is built again
createChunkOverwrites(c) ==
    /\ \E o \in WriteOutcomes, rep \in BOOLEAN :
         LET r == create(c, files[fileOf(c)], o, rep)
         IN /\ presentChunks' = Put(presentChunks, c, r.ch)
            /\ files' = [files EXCEPT ![fileOf(c)] = r.file]
            /\ stage' = [stage EXCEPT ![c] = "none"]
            /\ ret' = Ret("createChunk", c, r.exc, 0)
    /\ UNCHANGED <<expect, nib, box, hash>>

\* MCInfdevOldLevel.createChunk
createChunk(c) ==
    /\ IF c \in DOMAIN presentChunks
       THEN /\ ret' = Ret("createChunk", c, "ValueError", 0)
            /\ UNCHANGED <<presentChunks, files, stage>>
       ELSE \E o \in WriteOutcomes, rep \in BOOLEAN :
              LET r == create(c, files[fileOf(c)], o, rep)
              IN /\ presentChunks' = Put(presentChunks, c, r.ch)
                 /\ files' = [files EXCEPT ![fileOf(c)] = r.file]
                 /\ stage' = [stage EXCEPT ![c] = "none"]
                 /\ ret' = Ret("createChunk", c, r.exc, 0)
    /\ UNCHANGED <<expect, nib, box, hash>>

\* MCInfdevOldLevel.deleteChunk
deleteChunk(c) ==
    /\ IF c \notin DOMAIN presentChunks
       THEN /\ ret' = Ret("deleteChunk", c, "None", 0)
            /\ UNCHANGED <<presentChunks, files, stage>>
       ELSE LET r == remove(presentChunks[c], files[fileOf(c)])
            IN IF r.exc # "None"
               THEN /\ ret' = Ret("deleteChunk", c, r.exc, 0)
                    /\ UNCHANGED <<presentChunks, files, stage>>
               ELSE /\ presentChunks' = Del(presentChunks, c)
                    /\ files' = [files EXCEPT ![fileOf(c)] = r.file]
                    /\ stage' = [stage EXCEPT ![c] = "none"]
                    /\ ret' = Ret("deleteChunk", c, "None", 0)
    /\ UNCHANGED <<expect, nib, box, hash>>

\* MCInfdevOldLevel.getChunk; val is 1 when a chunk is returned
getChunk(c) ==
    /\ IF c \notin DOMAIN presentChunks
       THEN /\ ret' = Ret("getChunk", c, "ChunkNotPresent", 0)
            /\ UNCHANGED presentChunks
       ELSE LET r == load(presentChunks[c], files[fileOf(c)])
            IN /\ presentChunks' = Put(presentChunks, c, r.ch)
               /\ ret' = IF r.exc # "None" THEN Ret("getChunk", c, r.exc, 0)
                         ELSE IF c \notin DOMAIN Put(presentChunks, c, r.ch)
                              THEN Ret("getChunk", c, "ChunkMalformed", 0)
                         ELSE Ret("getChunk", c, "None", 1)
    /\ UNCHANGED <<files, expect, stage, nib, box, hash>>

\* MCInfdevOldLevel.markDirtyChunk: chunkChanged() on a chunk of the store
markDirtyChunk(c) ==
    /\ IF c \notin DOMAIN presentChunks
       THEN /\ ret' = Ret("chunkChanged", c, "None", 0)
            /\ UNCHANGED presentChunks
       ELSE LET r == chunkChanged(presentChunks[c])
            IN /\ presentChunks' = Put(presentChunks, c, r.ch)
               /\ ret' = Ret("chunkChanged", c, r.exc, 0)
    /\ UNCHANGED <<files, expect, stage, nib, box, hash>>

\* MCInfdevOldLevel.compressChunk
compressChunk(c) ==
    /\ IF c \notin DOMAIN presentChunks
       THEN /\ ret' = Ret("compress", c, "None", 0)
            /\ UNCHANGED presentChunks
       ELSE LET r == compress(presentChunks[c])
            IN /\ presentChunks' = Put(presentChunks, c, r.ch)
               /\ ret' = Ret("compress", c, r.exc, 0)
    /\ UNCHANGED <<files, expect, stage, nib, box, hash>>

\* decompress() called on a chunk of the store
decompressChunk(c) ==
    /\ c \in DOMAIN presentChunks
    /\ presentChunks' = Put(presentChunks, c, decompress(presentChunks[c]))
    /\ ret' = Ret("decompress", c, "None", 0)
    /\ UNCHANGED <<files, expect, stage, nib, box, hash>>

\* how far the blocks written through fillBlocks got once save has run on a
\* chunk: a write that succeeded puts them in the file, a failed one does not
stageAfterSave(st, wrote, outcome) ==
    IF ~wrote THEN st
    ELSE IF outcome # "ok" THEN "none"
    ELSE IF st = "marked" THEN "saved"
    ELSE st

\* save() called on a chunk of the store
saveChunk(c, o, rep) ==
    /\ c \in DOMAIN presentChunks
    /\ LET r == save(presentChunks[c], files[fileOf(c)], o, rep)
       IN /\ presentChunks' = Put(presentChunks, c, r.ch)
          /\ files' = [files EXCEPT ![fileOf(c)] = r.file]
          /\ stage' = [stage EXCEPT ![c] =
                          stageAfterSave(@, presentChunks[c].dirty /\ r.exc = "None", o)]
          /\ ret' = Ret("save", c, r.exc, 0)
    /\ UNCHANGED <<expect, nib, box, hash>>

\* a plausible slip: save() is only called on the chunks that are dirty
RECURSIVE saveFromDirtyOnly(_, _, _, _, _, _, _)
saveFromDirtyOnly(pc, fs, st, order, i, outs, rep) ==
    IF i > Len(order) THEN [pc |-> pc, fs |-> fs, st |-> st, exc |-> "None"]
    ELSE LET c == order[i]
             r == IF pc[c].dirty THEN save(pc[c], fs[fileOf(c)], outs[c], rep)
                  ELSE [ch |-> pc[c], file |-> fs[fileOf(c)], exc |-> "None"]
         IN IF r.exc # "None" THEN [pc |-> pc, fs |-> fs, st |-> st, exc |-> r.exc]
            ELSE saveFromDirtyOnly(Put(pc, c, r.ch),
                                   [fs EXCEPT ![fileOf(c)] = r.file],
                                   [st EXCEPT ![c] = stageAfterSave(@, pc[c].dirty, outs[c])],
                                   order, i + 1, outs, rep)

\* the loop of saveInPlace over _presentChunks.values() in the order given;
\* an exception ends it
RECURSIVE saveFrom(_, _, _, _, _, _, _)
saveFrom(pc, fs, st, order, i, outs, rep) ==
    IF i > Len(order) THEN [pc |-> pc, fs |-> fs, st |-> st, exc |-> "None"]
    ELSE LET c == order[i]
             r == save(pc[c], fs[fileOf(c)], outs[c], rep)
         IN IF r.exc # "None" THEN [pc |-> pc, fs |-> fs, st |-> st, exc |-> r.exc]
            ELSE saveFrom(Put(pc, c, r.ch),
                          [fs EXCEPT ![fileOf(c)] = r.file],
                          [st EXCEPT ![c] = stageAfterSave(@, pc[c].dirty, outs[c])],
                          order, i + 1, outs, rep)

\* the orders a dict may yield its values in
Orders(S) ==
    {s \in [1 .. Cardinality(S) -> S] :
        \A i, j \in 1 .. Cardinality(S) : i # j => s[i] # s[j]}

\* MCInfdevOldLevel.saveInPlace; val is the dirty chunk count it prints
saveInPlace(order, outs, rep) ==
    /\ order \in Orders(DOMAIN presentChunks)
    /\ LET r == saveFrom(presentChunks, files, stage, order, 1, outs, rep)
       IN /\ presentChunks' = r.pc
          /\ files' = r.fs
          /\ stage' = r.st
          /\ ret' = Ret("saveInPlace", <<>>, r.exc,
                        Cardinality({c \in DOMAIN presentChunks : presentChunks[c].dirty}))
    /\ UNCHANGED <<expect, nib, box, hash>>


\* a plausible slip: the last chunk of a row is sliced to its far edge
sliceForNoClip(b, c) ==
    LET minxoff == minx(b) - ChunkBase(mincx(b))
        minzoff == minz(b) - ChunkBase(mincz(b))
        localMinX == IF c[1] = mincx(b) THEN minxoff ELSE 0
        localMinZ == IF c[2] = mincz(b) THEN minzoff ELSE 0
    IN [xs |-> PySlice(localMinX, ChunkSize, ChunkSize),
        zs |-> PySlice(localMinZ, ChunkSize, ChunkSize),
        ys |-> PySlice(miny(b), maxy(b), Height),
        point |-> <<localMinX + ChunkBase(c[1]) - minx(b), 0,
                    localMinZ + ChunkBase(c[2]) - minz(b)>>]

\* the slices and the offset MCInfdevOldLevel.getChunkSlices yields for the
\* chunk position c of box b
sliceFor(b, c) ==
    LET minxoff == minx(b) - ChunkBase(mincx(b))
        minzoff == minz(b) - ChunkBase(mincz(b))
        maxxoff == maxx(b) - ChunkBase(maxcx(b)) + ChunkSize
        maxzoff == maxz(b) - ChunkBase(maxcz(b)) + ChunkSize
        localMinX == IF c[1] = mincx(b) THEN minxoff ELSE 0
        localMaxX == IF c[1] = maxcx(b) - 1 THEN maxxoff ELSE ChunkSize
        localMinZ == IF c[2] = mincz(b) THEN minzoff ELSE 0
        localMaxZ == IF c[2] = maxcz(b) - 1 THEN maxzoff ELSE ChunkSize
    IN [xs |-> PySlice(localMinX, localMaxX, ChunkSize),
        zs |-> PySlice(localMinZ, localMaxZ, ChunkSize),
        ys |-> PySlice(miny(b), maxy(b), Height),
        point |-> <<localMinX + ChunkBase(c[1]) - minx(b), 0,
                    localMinZ + ChunkBase(c[2]) - minz(b)>>]

\* the triples MCInfdevOldLevel.getChunkSlices yields for box b when the
\* coordinates in pres are the present ones: absent positions are skipped
getChunkSlices(b, pres) ==
    LET keep(c) == c \in pres
        pos == SelectSeq(chunkPositions(b), keep)
    IN [i \in 1 .. Len(pos) |-> [c |-> pos[i], sl |-> sliceFor(b, pos[i])]]

inSlice(sl, cell) == cell[1] \in sl.xs /\ cell[2] \in sl.zs /\ cell[3] \in sl.ys

\* a plausible slip: the value is written to the whole array
assignAll(a, sl, v) == [cell \in DOMAIN a |-> v % Byte]

\* array[slices] = v on a uint8 array
assign(a, sl, v) == [cell \in DOMAIN a |-> IF inSlice(sl, cell) THEN v % Byte ELSE a[cell]]

\* one round of the loop of fillBlocks on a present chunk: getChunkSlices
\* loads it and reads Blocks, the body writes the slices and calls chunkChanged
fillChunk(ch, file, sl, blockType, blockData) ==
    LET l == load(ch, file)
    IN IF l.exc # "None" THEN l
       ELSE IF accessExc(l.ch) # "None" THEN R(l.ch, accessExc(l.ch))
       ELSE chunkChanged([l.ch EXCEPT
                !.root_tag.Blocks = assign(@, sl, blockType),
                !.root_tag.Data = assign(@, sl, blockData)])

\* fillBlocks over the chunk positions of the box from the i-th on; absent
\* positions are skipped, any other exception ends the loop
RECURSIVE fillFrom(_, _, _, _, _, _)
fillFrom(pc, done, b, i, blockType, blockData) ==
    LET pos == chunkPositions(b)
    IN IF i > Len(pos) THEN [pc |-> pc, done |-> done, exc |-> "None"]
       ELSE IF pos[i] \notin DOMAIN pc
            THEN fillFrom(pc, done, b, i + 1, blockType, blockData)
       ELSE LET c == pos[i]
                r == fillChunk(pc[c], files[fileOf(c)], sliceFor(b, c), blockType, blockData)
            IN IF r.exc # "None"
               THEN [pc |-> Put(pc, c, r.ch), done |-> done, exc |-> r.exc]
               ELSE fillFrom(Put(pc, c, r.ch), done \cup {c}, b, i + 1, blockType, blockData)

\* MCInfdevOldLevel.fillBlocks
fillBlocks(b, blockType, blockData) ==
    /\ LET r == fillFrom(presentChunks, {}, b, 1, blockType, blockData)
       IN /\ presentChunks' = r.pc
          /\ expect' = [c \in Coords |->
                           IF c \in r.done THEN r.pc[c].root_tag.Blocks ELSE expect[c]]
          /\ stage' = [c \in Coords |-> IF c \in r.done THEN "marked" ELSE stage[c]]
          /\ ret' = Ret("fillBlocks", <<>>, r.exc, Cardinality(r.done))
    /\ UNCHANGED <<files, nib, box, hash>>

\* a plausible slip: the iterator marks the chunks it yields
visitChunkMarks(ch, file) ==
    LET l == load(ch, file)
    IN IF l.exc # "None" THEN l ELSE chunkChanged(l.ch)

\* what getChunkSlices does to a present chunk before it yields it:
\* blocksForChunk is getChunk(cx, cz).Blocks, which loads the chunk and reads
\* its Blocks
visitChunk(ch, file) ==
    LET l == load(ch, file)
    IN IF l.exc # "None" THEN l ELSE R(l.ch, accessExc(l.ch))

\* the loop of getChunkSlices from the i-th chunk position on, n triples
\* yielded so far; ChunkNotPresent is caught, any other exception ends it
RECURSIVE slicesFrom(_, _, _, _)
slicesFrom(pc, b, i, n) ==
    LET pos == chunkPositions(b)
    IN IF i > Len(pos) THEN [pc |-> pc, n |-> n, exc |-> "None"]
       ELSE IF pos[i] \notin DOMAIN pc THEN slicesFrom(pc, b, i + 1, n)
       ELSE LET r == visitChunk(pc[pos[i]], files[fileOf(pos[i])])
            IN IF r.exc # "None"
               THEN [pc |-> Put(pc, pos[i], r.ch), n |-> n, exc |-> r.exc]
               ELSE slicesFrom(Put(pc, pos[i], r.ch), b, i + 1, n + 1)

\* getChunkSlices(box) iterated to the end by a caller that does nothing with
\* the triples; val is the number of triples
listChunkSlices(b) ==
    /\ LET r == slicesFrom(presentChunks, b, 1, 0)
       IN /\ presentChunks' = r.pc
          /\ ret' = Ret("getChunkSlices", b.origin, r.exc, r.n)
    /\ UNCHANGED <<files, expect, stage, nib, box, hash>>

\* a plausible slip: every chunk position is created, present or not
RECURSIVE createFromAll(_, _, _, _, _, _)
createFromAll(pc, fs, b, i, o, rep) ==
    LET pos == chunkPositions(b)
    IN IF i > Len(pos) THEN [pc |-> pc, fs |-> fs]
       ELSE LET c == pos[i]
                r == create(c, fs[fileOf(c)], o, rep)
            IN createFromAll(Put(pc, c, r.ch), [fs EXCEPT ![fileOf(c)] = r.file],
                             b, i + 1, o, rep)

\* the loop of createChunksInRange from the i-th chunk position on
RECURSIVE createFrom(_, _, _, _, _, _)
createFrom(pc, fs, b, i, o, rep) ==
    LET pos == chunkPositions(b)
    IN IF i > Len(pos) THEN [pc |-> pc, fs |-> fs]
       ELSE IF pos[i] \in DOMAIN pc THEN createFrom(pc, fs, b, i + 1, o, rep)
       ELSE LET c == pos[i]
                r == create(c, fs[fileOf(c)], o, rep)
            IN createFrom(Put(pc, c, r.ch), [fs EXCEPT ![fileOf(c)] = r.file],
                          b, i + 1, o, rep)

\* MCInfdevOldLevel.createChunksInRange, on boxes inside the modelled world
createChunksInRange(b) ==
    /\ \A i \in DOMAIN chunkPositions(b) : chunkPositions(b)[i] \in Coords
    /\ \E o \in WriteOutcomes, rep \in BOOLEAN :
         LET r == createFrom(presentChunks, files, b, 1, o, rep)
         IN /\ presentChunks' = r.pc
            /\ files' = r.fs
            /\ ret' = Ret("createChunksInRange", <<>>, "None",
                          Cardinality(DOMAIN r.pc \ DOMAIN presentChunks))
    /\ UNCHANGED <<expect, stage, nib, box, hash>>

\* MCInfdevOldLevel.blockAt
blockAt(x, y, z) ==
    LET c == <<ChunkOf(x), ChunkOf(z)>>
        at == <<x, y, z>>
    IN /\ IF y < 0 \/ y >= Height
          THEN /\ ret' = Ret("blockAt", at, "None", 0)
               /\ UNCHANGED presentChunks
          ELSE IF c \notin DOMAIN presentChunks
          THEN /\ ret' = Ret("blockAt", at, "ChunkNotPresent", 0)
               /\ UNCHANGED presentChunks
          ELSE LET l == load(presentChunks[c], files[fileOf(c)])
               IN /\ presentChunks' = Put(presentChunks, c, l.ch)
                  /\ ret' = IF l.exc # "None" THEN Ret("blockAt", at, l.exc, 0)
                            ELSE IF accessExc(l.ch) # "None"
                                 THEN Ret("blockAt", at, accessExc(l.ch), 0)
                            ELSE Ret("blockAt", at, "None",
                                     l.ch.root_tag.Blocks[<<InChunk(x), InChunk(z), y>>])
       /\ UNCHANGED <<files, expect, stage, nib, box, hash>>

\* MCInfdevOldLevel.__init__ on the same world directory: a fresh store whose
\* chunks are the ones the startup scan finds
Reopen ==
    /\ presentChunks' = preloadChunkPaths(files)
    /\ stage' = [c \in Coords |->
                    IF stage[c] \in {"saved", "reopened"} THEN "reopened" ELSE "none"]
    /\ ret' = Ret("open", <<>>, "None", 0)
    /\ UNCHANGED <<files, expect, nib, box, hash>>

\* the environment overwrites an existing chunk file with bytes that do not
\* parse, or with a tag tree without the chunk's fields
CorruptFile(c, content) ==
    /\ files[fileOf(c)] # None
    /\ files[fileOf(c)] # content
    /\ files' = [files EXCEPT ![fileOf(c)] = content]
    /\ stage' = [stage EXCEPT ![c] = "none"]
    /\ ret' = Ret("corrupt", c, "None", 0)
    /\ UNCHANGED <<presentChunks, expect, nib, box, hash>>

Next ==
    \/ \E c \in Coords : createChunk(c)
    \/ \E c \in Coords : deleteChunk(c)
    \/ \E c \in Coords : getChunk(c)
    \/ \E c \in Coords : markDirtyChunk(c)
    \/ \E c \in Coords : compressChunk(c)
    \/ \E c \in Coords : decompressChunk(c)
    \/ \E c \in Coords, o \in WriteOutcomes, rep \in BOOLEAN : saveChunk(c, o, rep)
    \/ \E order \in Orders(DOMAIN presentChunks), outs \in [Coords -> WriteOutcomes],
          rep \in BOOLEAN : saveInPlace(order, outs, rep)
    \/ \E b \in Boxes, t \in BlockTypes, d \in DataValues : fillBlocks(b, t, d)
    \/ \E b \in Boxes : createChunksInRange(b)
    \/ \E b \in Boxes : listChunkSlices(b)
    \/ \E p \in Points : blockAt(p[1], p[2], p[3])
    \/ Reopen
    \/ \E c \in Coords, g \in {Garbage, Serialize(NoFieldsTree)} : CorruptFile(c, g)

Spec == Init /\ [][Next]_vars


\* ------------------------------------------- the nibble round trip alone
\* every packed array of one column, any byte values
PackedInputs == [(0 .. 0) \X (0 .. 0) \X (0 .. PackLen - 1) -> 0 .. Byte - 1]

InitPack ==
    /\ files = [f \in FileNames |-> None]
    /\ presentChunks = preloadChunkPaths(files)
    /\ ret = Ret("init", <<>>, "None", 0)
    /\ expect = [c \in Coords |-> zeros(Cells)]
    /\ stage = [c \in Coords |-> "none"]
    /\ nib \in {[at |-> "packed", x |-> p] : p \in PackedInputs}
    /\ box = noBox
    /\ hash = noHash

\* unpackChunkData on the array as read from the file
unpackStep ==
    /\ nib.at = "packed"
    /\ nib' = [at |-> "unpacked", x |-> nib.x, u |-> unpackChunkData(nib.x)]
    /\ UNCHANGED <<presentChunks, files, ret, expect, stage, box, hash>>

\* packChunkData on the result
packStep ==
    /\ nib.at = "unpacked"
    /\ nib' = [at |-> "repacked", x |-> nib.x, u |-> nib.u, r |-> packChunkData(nib.u)]
    /\ UNCHANGED <<presentChunks, files, ret, expect, stage, box, hash>>

NextPack == unpackStep \/ packStep

SpecPack == InitPack /\ [][NextPack]_vars

\* ------------------------------------------------- the startup scan alone
\* chunk coordinates on both sides of 0, with one, two and three base-36
\* digits, in one-character and two-character directories
ScanCoords ==
    {<<0, 0>>, <<-1, 0>>, <<0, -1>>, <<35, 36>>, <<-64, 64>>, <<-37, 1295>>,
     <<1296, -1296>>}

\* a world directory written earlier: any subset of the chunk files of
\* ScanCoords exists, each under the name chunkFilename gives it
InitScan ==
    /\ files \in [{fileOf(c) : c \in ScanCoords} ->
                    {None, Serialize(packTree(createTree(<<0, 0>>)))}]
    /\ presentChunks = << >>
    /\ ret = Ret("init", <<>>, "None", 0)
    /\ expect = [c \in Coords |-> zeros(Cells)]
    /\ stage = [c \in Coords |-> "none"]
    /\ nib = [at |-> "idle"]
    /\ box = noBox
    /\ hash = noHash

\* MCInfdevOldLevel(filename) on that directory
SpecScan == InitScan /\ [][Reopen]_vars

\* ------------------------------------------------- directory labels alone
HashInputs == (0 - HashSpan) .. HashSpan

InitHash ==
    /\ files = [f \in FileNames |-> None]
    /\ presentChunks = preloadChunkPaths(files)
    /\ ret = Ret("init", <<>>, "None", 0)
    /\ expect = [c \in Coords |-> zeros(Cells)]
    /\ stage = [c \in Coords |-> "none"]
    /\ nib = [at |-> "idle"]
    /\ box = noBox
    /\ hash \in {[op |-> "n", n |-> k] : k \in HashInputs}

\* dirhash(n) before the table is installed
dirhashStep ==
    /\ hash.op = "n"
    /\ hash' = [op |-> "dirhash", n |-> hash.n, label |-> dirhash(hash.n)]
    /\ UNCHANGED <<presentChunks, files, ret, expect, stage, nib, box>>

\* dirhash(n) on the constructed level, i.e. dirhashlookup(n)
dirhashlookupStep ==
    /\ hash.op = "dirhash"
    /\ hash' = [op |-> "dirhashlookup", n |-> hash.n, label |-> hash.label,
                looked |-> dirhashlookup(hash.n)]
    /\ UNCHANGED <<presentChunks, files, ret, expect, stage, nib, box>>

\* decbase36 of the label
decbase36Step ==
    /\ hash.op = "dirhashlookup"
    /\ hash' = [op |-> "decbase36", n |-> hash.n, label |-> hash.label,
                looked |-> hash.looked, dec |-> decbase36(hash.label)]
    /\ UNCHANGED <<presentChunks, files, ret, expect, stage, nib, box>>

NextHash == dirhashStep \/ dirhashlookupStep \/ decbase36Step

SpecHash == InitHash /\ [][NextHash]_vars

\* ------------------------------------------------------ BoundingBox alone
\* the edges the X and Z setters are tried with, on both sides of 0 and across
\* chunk borders, and the edges the Y setters are tried with
XZArgs == (1 - BoxSpan) .. BoxSpan
YArgs == 0 .. 1

\* the boxes the setters start from: BoundingBox(), one whole chunk, and a box
\* from negative coordinates across the border of four chunks
BoxInputs ==
    {Box(<<0, 0, 0>>, <<0, 0, 0>>),
     Box(<<0, 0, 0>>, <<ChunkSize, Height, ChunkSize>>),
     Box(<<-1, 0, -1>>, <<ChunkSize, 1, ChunkSize>>)}

BoxCall(op, arg, b, out) == [op |-> op, arg |-> arg, b |-> b, out |-> out]

InitBox ==
    /\ files = [f \in FileNames |-> None]
    /\ presentChunks = preloadChunkPaths(files)
    /\ ret = Ret("init", <<>>, "None", 0)
    /\ expect = [c \in Coords |-> zeros(Cells)]
    /\ stage = [c \in Coords |-> "none"]
    /\ nib = [at |-> "idle"]
    /\ box \in {BoxCall("BoundingBox", 0, b, <<>>) : b \in BoxInputs}
    /\ hash = noHash

\* box.minx = x and the five other edge assignments
BoxSetMinx(x) ==
    /\ box' = BoxCall("setMinx", x, setMinx(box.b, x), <<>>)
    /\ UNCHANGED <<presentChunks, files, ret, expect, stage, nib, hash>>

BoxSetMiny(y) ==
    /\ box' = BoxCall("setMiny", y, setMiny(box.b, y), <<>>)
    /\ UNCHANGED <<presentChunks, files, ret, expect, stage, nib, hash>>

BoxSetMinz(z) ==
    /\ box' = BoxCall("setMinz", z, setMinz(box.b, z), <<>>)
    /\ UNCHANGED <<presentChunks, files, ret, expect, stage, nib, hash>>

BoxSetMaxx(x) ==
    /\ box' = BoxCall("setMaxx", x, setMaxx(box.b, x), <<>>)
    /\ UNCHANGED <<presentChunks, files, ret, expect, stage, nib, hash>>

BoxSetMaxy(y) ==
    /\ box' = BoxCall("setMaxy", y, setMaxy(box.b, y), <<>>)
    /\ UNCHANGED <<presentChunks, files, ret, expect, stage, nib, hash>>

BoxSetMaxz(z) ==
    /\ box' = BoxCall("setMaxz", z, setMaxz(box.b, z), <<>>)
    /\ UNCHANGED <<presentChunks, files, ret, expect, stage, nib, hash>>

\* box.chunkPositions read to the end
BoxChunkPositions ==
    /\ box' = BoxCall("chunkPositions", 0, box.b, chunkPositions(box.b))
    /\ UNCHANGED <<presentChunks, files, ret, expect, stage, nib, hash>>

\* getChunkSlices(box) read to the end on a world that holds every chunk
\* position of the box
BoxGetChunkSlices ==
    /\ box' = BoxCall("getChunkSlices", 0, box.b,
                      getChunkSlices(box.b, {chunkPositions(box.b)[i] :
                                                i \in DOMAIN chunkPositions(box.b)}))
    /\ UNCHANGED <<presentChunks, files, ret, expect, stage, nib, hash>>

NextBox ==
    \/ \E x \in XZArgs : BoxSetMinx(x) \/ BoxSetMinz(x) \/ BoxSetMaxx(x) \/ BoxSetMaxz(x)
    \/ \E y \in YArgs : BoxSetMiny(y) \/ BoxSetMaxy(y)
    \/ BoxChunkPositions
    \/ BoxGetChunkSlices

SpecBox == InitBox /\ [][NextBox]_vars

\* ------------------------------------------------------- generateLights
\* the two chunk coordinates the light sweep is tried on, neighbours in X
LightCoords == {<<0, 0>>, <<1, 0>>}

\* materials.lightEmission: a torch (50) gives 14, lava (11) gives 15
lightEmission == [b \in 0 .. Byte - 1 |-> IF b = 50 THEN 14 ELSE IF b = 11 THEN 15 ELSE 0]

\* the passes of the dispersal loop for each of the two light arrays
LightPasses == 16

\* the highest x and z index of a chunk array
Last == ChunkSize - 1

\* the lateral directions in the order neighboringChunks is filled:
\* FaceXDecreasing, FaceXIncreasing, FaceZDecreasing, FaceZIncreasing
LightDirs == <<<<-1, 0>>, <<1, 0>>, <<0, -1>>, <<0, 1>>>>

\* la of generateLights: the absorption table with la[18] = 0 (leaves)
dispersalLa == [lightAbsorption EXCEPT ![18] = 0]

\* a plausible slip: the wrapped values are not reset
ClampNone(v) == v

\* newlight[newlight > 15] = 0
Clamp(v) == IF v > 15 THEN 0 ELSE v

\* the array called name of the chunk behind handle h: of chunk h.at, or of the
\* ZeroChunk, whose Blocks, BlockLight and SkyLight are one and the same array
arrayOf(W, h, name) == IF h.zero THEN W.z ELSE W.pc[h.at].root_tag[name]

\* a light array is assigned the value of a numpy expression; ok records that
\* all its cells are light levels, mono that no cell of a chunk's array went
\* down in the assignment
SetLight(W, h, light, arr) ==
    CHOOSE V \in {IF h.zero
                  THEN [W EXCEPT !.z = a,
                                 !.ok = @ /\ \A cell \in DOMAIN a : a[cell] \in 0 .. 15]
                  ELSE [W EXCEPT !.pc[h.at].root_tag[light] = a,
                                 !.ok = @ /\ \A cell \in DOMAIN a : a[cell] \in 0 .. 15,
                                 !.mono = @ /\ \A cell \in DOMAIN a :
                                              a[cell] >= W.pc[h.at].root_tag[light][cell]] :
                  a \in {g \in {arr} : g = g}} : TRUE

\* light sent over an edge on axis a (1 = x, 2 = z), in uint8 arithmetic: the
\* neighbour's face `to` takes the maximum of what it holds and the chunk's
\* face `from` less the neighbour's absorption less 1
EdgeOut(chunkLight, ncLight, ncBlocks, la, a, from, to) ==
    [cell \in Cells |->
        IF cell[a] = to
        THEN Max(ncLight[cell],
                 Clamp((((chunkLight[[cell EXCEPT ![a] = from]] - la[ncBlocks[cell]]) % Byte)
                        - 1) % Byte))
        ELSE ncLight[cell]]

\* a plausible slip: the new light is stored without the maximum
BodyOverwrite(chunkLight, chunkLa, a, d) ==
    [cell \in Cells |->
        IF cell[a] + d \in 0 .. (IF a = 3 THEN Height ELSE ChunkSize) - 1
        THEN Clamp((chunkLight[[cell EXCEPT ![a] = cell[a] + d]] - chunkLa[cell]) % Byte)
        ELSE chunkLight[cell]]

\* light moved inside the chunk along axis a (3 = y): each cell takes the
\* maximum of what it holds and the cell d further along less its own chunkLa
Body(chunkLight, chunkLa, a, d) ==
    [cell \in Cells |->
        IF cell[a] + d \in 0 .. (IF a = 3 THEN Height ELSE ChunkSize) - 1
        THEN Max(chunkLight[cell],
                 Clamp((chunkLight[[cell EXCEPT ![a] = cell[a] + d]] - chunkLa[cell]) % Byte))
        ELSE chunkLight[cell]]

\* light taken over an edge: the chunk's face `at` takes the maximum of what it
\* holds and the neighbour's face `from` less its own chunkLa
EdgeIn(chunkLight, ncLight, chunkLa, a, at, from) ==
    [cell \in Cells |->
        IF cell[a] = at
        THEN Max(chunkLight[cell],
                 Clamp((ncLight[[cell EXCEPT ![a] = from]] - chunkLa[cell]) % Byte))
        ELSE chunkLight[cell]]

\* a plausible slip: the ZeroChunk's array is left as the exchanges made it
resetZeroNone(V) == V

\* zerochunkLight[:] = 0
resetZero(V) == [V EXCEPT !.z = zeros(Cells)]

\* the six exchanges of chunk c along the lateral axis a with the neighbours
\* dec and inc, then zerochunkLight[:] = 0, as the steps 1 to 7 taken one after
\* the other; reading an array of a neighbour whose tree lacks its fields
\* raises KeyError. zclean records that the ZeroChunk's array was all zero
\* when the exchanges began, zquiet that taking light over an edge from the
\* ZeroChunk left the chunk's array as it was
lateralPhase(W, c, light, a, dec, inc, chunkLa) ==
    LET la == dispersalLa
        self == [zero |-> FALSE, at |-> c]
        cl(V) == V.pc[c].root_tag[light]
        bad(h) == ~h.zero /\ accessExc(W.pc[h.at]) # "None"
        edge(V, k) ==
            CASE k = 1 -> SetLight(V, dec, light,
                              EdgeOut(cl(V), arrayOf(V, dec, light),
                                      arrayOf(V, dec, "Blocks"), la, a, 0, Last))
              [] k = 2 -> SetLight(V, self, light, Body(cl(V), chunkLa, a, 1))
              [] k = 3 -> SetLight(V, self, light,
                              EdgeIn(cl(V), arrayOf(V, inc, light), chunkLa, a, Last, 0))
              [] k = 4 -> SetLight(V, inc, light,
                              EdgeOut(cl(V), arrayOf(V, inc, light),
                                      arrayOf(V, inc, "Blocks"), la, a, Last, 0))
              [] k = 5 -> SetLight(V, self, light, Body(cl(V), chunkLa, a, -1))
              [] k = 6 -> SetLight(V, self, light,
                              EdgeIn(cl(V), arrayOf(V, dec, light), chunkLa, a, 0, Last))
              [] OTHER -> resetZero(V)
        fromZero(k) == (k = 3 /\ inc.zero) \/ (k = 6 /\ dec.zero)
        step(V, k) ==
            CHOOSE n \in {[v EXCEPT !.zquiet = @ /\ (fromZero(k) => cl(v) = cl(V))] :
                          v \in {edge(V, k)}} : TRUE
        RECURSIVE run(_, _)
        run(V, k) ==
            IF k = 1 /\ bad(dec) THEN [V EXCEPT !.exc = accessExc(W.pc[dec.at])]
            ELSE IF k = 3 /\ bad(inc) THEN [V EXCEPT !.exc = accessExc(W.pc[inc.at])]
            ELSE IF k > 7 THEN V
            ELSE CHOOSE r \in {run(v, k + 1) : v \in {step(V, k)}} : TRUE
    IN CHOOSE r \in {run(v, 1) :
                     v \in {[W EXCEPT !.zclean = @ /\ W.z = zeros(Cells)]}} : TRUE

\* the two vertical exchanges of chunk c, upwards and then downwards, then
\* zerochunkLight[:] = 0
verticalPhase(W, c, light, chunkLa) ==
    LET self == [zero |-> FALSE, at |-> c]
        cl(V) == V.pc[c].root_tag[light]
    IN CHOOSE r \in {resetZero(w2) :
                     w2 \in {SetLight(w1, self, light, Body(cl(w1), chunkLa, 3, 1)) :
                             w1 \in {SetLight(w0, self, light,
                                              Body(cl(w0), chunkLa, 3, -1)) :
                                     w0 \in {[W EXCEPT !.zclean = @ /\ W.z = zeros(Cells)]}}}} :
           TRUE

\* neighboringChunks of chunk c from the i-th direction on: the ZeroChunk for a
\* coordinate that is not a key, else getChunk, which loads the neighbour, and
\* the assertion that its tree is set; hs holds the handles found so far
RECURSIVE neighbours(_, _, _, _)
neighbours(W, c, i, hs) ==
    IF i > Len(LightDirs) THEN [W |-> W, hs |-> hs]
    ELSE LET n == <<c[1] + LightDirs[i][1], c[2] + LightDirs[i][2]>>
         IN IF n \notin DOMAIN W.pc
            THEN CHOOSE r \in {neighbours(W, c, i + 1, g) :
                               g \in {Append(hs, [zero |-> TRUE, at |-> c])}} : TRUE
            ELSE CHOOSE r \in
                   {IF l.exc # "None" THEN [W |-> [V EXCEPT !.exc = l.exc], hs |-> hs]
                    ELSE IF l.ch.root_tag = None
                         THEN [W |-> [V EXCEPT !.exc = "AssertionError"], hs |-> hs]
                    ELSE neighbours(V, c, i + 1, g) :
                    l \in {load(W.pc[n], W.fs[fileOf(n)])},
                    V \in {[W EXCEPT !.pc[n] = load(W.pc[n], W.fs[fileOf(n)]).ch]},
                    g \in {Append(hs, [zero |-> FALSE, at |-> n])}} : TRUE

\* the body of the dispersal loop for one chunk and one light array
chunkTurn(W, c, light) ==
    CHOOSE r \in
      {IF nb.W.exc # "None" THEN nb.W
       ELSE CHOOSE rx \in
              {IF wx.exc # "None" THEN wx
               ELSE CHOOSE rz \in
                      {IF wz.exc # "None" THEN wz
                       ELSE verticalPhase(wz, c, light, chunkLa) :
                       wz \in {lateralPhase(wx, c, light, 2, nb.hs[3], nb.hs[4], chunkLa)}} :
                      TRUE :
               wx \in {lateralPhase(nb.W, c, light, 1, nb.hs[1], nb.hs[2], chunkLa)}} : TRUE :
       nb \in {neighbours(W, c, 1, <<>>)},
       chunkLa \in {g \in {[cell \in Cells |->
                       (dispersalLa[W.pc[c].root_tag.Blocks[cell]] + 1) % Byte]} : g = g}} : TRUE

\* one pass of the dispersal loop over the chunks of order from the i-th on;
\* an exception ends it
RECURSIVE onePass(_, _, _, _)
onePass(W, order, light, i) ==
    IF i > Len(order) \/ W.exc # "None" THEN W
    ELSE CHOOSE r \in {onePass(V, order, light, i + 1) :
                       V \in {chunkTurn(W, order[i], light)}} : TRUE

\* a plausible slip: one pass is made instead of sixteen
passesOnce(W, order, light, p) == onePass(W, order, light, 1)

\* the passes for one light array from the p-th on; a pass is a function of
\* the arrays alone, so once a pass has changed nothing the remaining ones
\* change nothing either and are not computed
RECURSIVE passes(_, _, _, _)
passes(W, order, light, p) ==
    IF p >= LightPasses \/ W.exc # "None" THEN W
    ELSE CHOOSE r \in {IF V = W THEN W ELSE passes(V, order, light, p + 1) :
                       V \in {onePass(W, order, light, 1)}} : TRUE

\* the first loop of generateLights from the i-th chunk of order on: load,
\* chunkChanged, the assertion on the flags, BlockLight from the emission table
RECURSIVE initLights(_, _, _)
initLights(W, order, i) ==
    IF i > Len(order) THEN W
    ELSE CHOOSE res \in
           {IF l.exc # "None" THEN [W EXCEPT !.pc[order[i]] = l.ch, !.exc = l.exc]
            ELSE CHOOSE res2 \in
                   {IF r.exc # "None"
                    THEN [W EXCEPT !.pc[order[i]] = r.ch, !.exc = r.exc]
                    ELSE IF ~(r.ch.dirty /\ r.ch.needsCompression /\ r.ch.needsLighting)
                         THEN [W EXCEPT !.pc[order[i]] = r.ch, !.exc = "AssertionError"]
                    ELSE CHOOSE res3 \in
                           {initLights(V, order, i + 1) :
                            V \in {SetLight([W EXCEPT !.pc[order[i]] = r.ch],
                                       [zero |-> FALSE, at |-> order[i]], "BlockLight",
                                       [cell \in Cells |->
                                           lightEmission[r.ch.root_tag.Blocks[cell]]])}} : TRUE :
                    r \in {chunkChanged(l.ch)}} : TRUE :
            l \in {load(W.pc[order[i]], W.fs[fileOf(order[i])])}} : TRUE

\* a plausible slip: the chunks are taken in the order they were given
sortedChunksAsGiven(q) == q

\* sorted(dirtyChunks, key = chunkPosition): the list with the same entries
\* in ascending order of (x, z)
sortedChunks(q) ==
    CHOOSE s \in [1 .. Len(q) -> {q[i] : i \in 1 .. Len(q)}] :
        /\ \A e \in {q[i] : i \in 1 .. Len(q)} :
              Cardinality({i \in 1 .. Len(q) : s[i] = e}) =
                  Cardinality({i \in 1 .. Len(q) : q[i] = e})
        /\ \A i, j \in 1 .. Len(q) :
              i < j => \/ s[i][1] < s[j][1]
                       \/ s[i][1] = s[j][1] /\ s[i][2] <= s[j][2]

\* a plausible slip: the flag of the chunks is left as chunkChanged set it
clearLightingNone(pc, S) == pc

\* the last loop of generateLights: needsLighting = False on the chunks of S
clearLighting(pc, S) ==
    [c \in DOMAIN pc |-> IF c \in S THEN [pc[c] EXCEPT !.needsLighting = FALSE] ELSE pc[c]]

\* generateLights on the list q of coordinates (dirtyChunks after the
\* filter): the sort, the first loop, the dispersal of BlockLight and then of
\* SkyLight over a fresh ZeroChunk, and the last loop; an exception ends it
\* where it is raised. mono is counted from the end of the first loop
lightChunks(pc, fs, q) ==
    CHOOSE r \in
      {IF W1.exc # "None" THEN W1
       ELSE CHOOSE r2 \in
              {IF W3.exc # "None" THEN W3
               ELSE [W3 EXCEPT !.pc = clearLighting(@, {q[i] : i \in 1 .. Len(q)})] :
               W3 \in {passes(W2, order, "SkyLight", 0) :
                       W2 \in {passes(W1, order, "BlockLight", 0)}}} : TRUE :
       order \in {sortedChunks(q)},
       W1 \in {[w EXCEPT !.mono = TRUE] :
               w \in {initLights([pc |-> pc, fs |-> fs, z |-> zeros(Cells), ok |-> TRUE,
                                  mono |-> TRUE, zclean |-> TRUE, zquiet |-> TRUE,
                                  exc |-> "None"], sortedChunks(q), 1)}}} : TRUE

\* MCInfdevOldLevel.generateLights(dirtyChunks): without the argument the
\* present chunks that need lighting, in the order the dict yields them,
\* else the entries of the given list that are keys; val is what was seen
\* during the call (ok, mono, zclean, zquiet) and the coordinates worked on
generateLights(arg) ==
    \E q \in IF arg.given
              THEN {SelectSeq(arg.coords, LAMBDA c : c \in DOMAIN presentChunks)}
              ELSE Orders({c \in DOMAIN presentChunks : presentChunks[c].needsLighting}) :
      \E r \in {lightChunks(presentChunks, files, q)} :
        /\ presentChunks' = r.pc
        /\ ret' = Ret("generateLights", arg, r.exc,
                      [ok |-> r.ok, mono |-> r.mono, zclean |-> r.zclean,
                       zquiet |-> r.zquiet, processed |-> {q[i] : i \in 1 .. Len(q)}])
        /\ UNCHANGED <<files, expect, stage, nib, box, hash>>

\* the states chunk (0,0) can be in when the sweep starts: not a key, or
\* created in this session (compressed, no file yet); chunk (1,0) may also
\* have been found by the startup scan, with a well-formed file, with bytes
\* that do not parse, or with a tree without the chunk's fields
LightStarts(c) ==
    {[present |-> FALSE, ch |-> newChunk, file |-> None],
     [present |-> TRUE, ch |-> create(c, None, "ok", TRUE).ch, file |-> None]}
    \cup (IF c = <<0, 0>> THEN {}
          ELSE {[present |-> TRUE, ch |-> newChunk,
                 file |-> Serialize(packTree(createTree(c)))],
                [present |-> TRUE, ch |-> newChunk, file |-> Garbage],
                [present |-> TRUE, ch |-> newChunk, file |-> Serialize(NoFieldsTree)]})

\* the fills the lit world is built by: a torch in the cell of chunk (0,0)
\* next to chunk (1,0), wood planks in the cell of chunk (1,0) facing it, and
\* leaves at the top of the first column of chunk (0,0)
LightFills ==
    {[box |-> Box(<<ChunkSize - 1, 0, 0>>, <<1, 1, 1>>), blockType |-> 50],
     [box |-> Box(<<ChunkSize, 0, 0>>, <<1, 1, 1>>), blockType |-> 5],
     [box |-> Box(<<0, Height - 1, 0>>, <<1, 1, 1>>), blockType |-> 18]}

InitLight ==
    \E st \in [LightCoords -> UNION {LightStarts(c) : c \in LightCoords}] :
        /\ \A c \in LightCoords : st[c] \in LightStarts(c)
        /\ presentChunks = [c \in {d \in LightCoords : st[d].present} |-> st[c].ch]
        /\ files = [f \in {fileOf(c) : c \in LightCoords} |->
                       st[CHOOSE c \in LightCoords : fileOf(c) = f].file]
        /\ ret = Ret("init", <<>>, "None", 0)
        /\ expect = [c \in Coords |-> zeros(Cells)]
        /\ stage = [c \in Coords |-> "none"]
        /\ nib = [at |-> "idle"]
        /\ box = noBox
        /\ hash = noHash

NextLight ==
    \/ \E f \in LightFills : fillBlocks(f.box, f.blockType, 0)
    \/ \E arg \in {[given |-> FALSE, coords |-> <<>>],
                    [given |-> TRUE, coords |-> <<<<0, 0>>>>],
                    [given |-> TRUE, coords |-> <<<<0, 0>>, <<1, 0>>>>],
                    [given |-> TRUE, coords |-> <<<<1, 0>>, <<0, 0>>>>]} : generateLights(arg)

\* a world of two neighbouring chunks that is filled and lit
SpecLight == InitLight /\ [][NextLight]_vars

\* the store operations and generateLights on the one chunk (0,0) of a new
\* world, which holds air or a torch and whose file may be corrupted
NextFlags ==
    \/ \E c \in Coords : createChunk(c) \/ deleteChunk(c) \/ getChunk(c)
    \/ \E c \in Coords : markDirtyChunk(c) \/ compressChunk(c) \/ decompressChunk(c)
    \/ \E c \in Coords, o \in WriteOutcomes : saveChunk(c, o, TRUE)
    \/ fillBlocks(Box(<<ChunkSize - 1, 0, 0>>, <<1, 1, 1>>), 50, 0)
    \/ \E arg \in {[given |-> FALSE, coords |-> <<>>],
                    [given |-> TRUE, coords |-> <<<<0, 0>>>>]} : generateLights(arg)
    \/ Reopen
    \/ \E c \in Coords, g \in {Garbage, Serialize(NoFieldsTree)} : CorruptFile(c, g)

SpecFlags == Init /\ [][NextFlags]_vars

\* ------------------------------------------------------- copyBlocksFrom
\* the finite level copied from: a schematic of 2 x 1 x Height cells, indexed
\* [x, z, y], with a different block id in every cell and Data above a nibble
sourceLevel ==
    [Blocks |-> [s \in (0 .. 1) \X (0 .. 0) \X (0 .. Height - 1) |-> 1 + s[1] + 2 * s[3]],
     Data |-> [s \in (0 .. 1) \X (0 .. 0) \X (0 .. Height - 1) |-> 17 + s[3]]]

\* conversionTableFromLevel(sourceLevel): air stays air, the other ids move
conversionTable == [b \in 0 .. Byte - 1 |-> IF b = 0 THEN 0 ELSE (b + 16) % Byte]

\* one round of the loop of copyBlocksFromFinite on a present chunk:
\* getChunkSlices loads it and reads Blocks; the cells of the slices take the
\* converted blocks and the low nibble of the data of the source cells from
\* corner src on, as far as the source level reaches; then chunkChanged
copyChunk(ch, file, sl, src) ==
    LET l == load(ch, file)
        lo(S) == CHOOSE v \in S : \A w \in S : v <= w
        from(cell) == <<src[1] + cell[1] - lo(sl.xs),
                        src[3] + cell[2] - lo(sl.zs),
                        src[2] + cell[3] - lo(sl.ys)>>
        copied(cell) == inSlice(sl, cell) /\ from(cell) \in DOMAIN sourceLevel.Blocks
    IN IF l.exc # "None" THEN l
       ELSE IF accessExc(l.ch) # "None" THEN R(l.ch, accessExc(l.ch))
       ELSE chunkChanged([l.ch EXCEPT
                !.root_tag.Blocks =
                    [cell \in Cells |->
                        IF copied(cell) THEN conversionTable[sourceLevel.Blocks[from(cell)]]
                        ELSE @[cell]],
                !.root_tag.Data =
                    [cell \in Cells |->
                        IF copied(cell) THEN sourceLevel.Data[from(cell)] % (NibbleMask + 1)
                        ELSE @[cell]]])

\* copyBlocksFromFinite over the chunk positions of the destination box b from
\* the i-th on, the source box starting at origin; absent positions are
\* skipped, an exception ends the loop
RECURSIVE copyFrom(_, _, _, _)
copyFrom(pc, b, origin, i) ==
    LET pos == chunkPositions(b)
    IN IF i > Len(pos) THEN [pc |-> pc, exc |-> "None"]
       ELSE IF pos[i] \notin DOMAIN pc THEN copyFrom(pc, b, origin, i + 1)
       ELSE LET c == pos[i]
                sl == sliceFor(b, c)
                r == copyChunk(pc[c], files[fileOf(c)], sl,
                               <<origin[1] + sl.point[1], origin[2], origin[3] + sl.point[3]>>)
            IN IF r.exc # "None" THEN [pc |-> Put(pc, c, r.ch), exc |-> r.exc]
               ELSE copyFrom(Put(pc, c, r.ch), b, origin, i + 1)

\* MCInfdevOldLevel.copyBlocksFrom from a finite level with copyAir and
\* copyWater left True: the box is cut to the height range, then
\* copyBlocksFromFinite (entities are not modelled)
copyBlocksFrom(sourceBox, destinationPoint) ==
    LET y == destinationPoint[2]
        ly == sourceBox.size[2]
        b1 == IF y < 0 THEN [sourceBox EXCEPT !.origin[2] = @ - y] ELSE sourceBox
        y1 == IF y < 0 THEN 0 ELSE y
        b2 == IF y1 + ly > Height THEN [b1 EXCEPT !.size[2] = @ - (y1 + ly - Height)] ELSE b1
        y2 == IF y1 + ly > Height THEN Height - ly ELSE y1
        r == copyFrom(presentChunks,
                      Box(<<destinationPoint[1], y2, destinationPoint[3]>>, b2.size),
                      b2.origin, 1)
    IN /\ presentChunks' = r.pc
       /\ ret' = Ret("copyBlocksFrom", [box |-> sourceBox, point |-> destinationPoint],
                     r.exc, 0)
       /\ UNCHANGED <<files, expect, stage, nib, box, hash>>

\* a world in which chunk (0,0) has been created or not; (-1,0) never is
InitCopy ==
    /\ presentChunks \in {<< >>,
                          [c \in {<<0, 0>>} |-> create(c, None, "ok", TRUE).ch]}
    /\ files = [f \in FileNames |-> None]
    /\ ret = Ret("init", <<>>, "None", 0)
    /\ expect = [c \in Coords |-> zeros(Cells)]
    /\ stage = [c \in Coords |-> "none"]
    /\ nib = [at |-> "idle"]
    /\ box = noBox
    /\ hash = noHash

\* copies of one cell, of a column and of the whole source level to points
\* below, inside and at the top of the height range, on both sides of the
\* border of chunks (-1,0) and (0,0)
SpecCopy ==
    InitCopy /\ [][\E sourceBox \in {Box(<<0, 0, 0>>, <<1, 1, 1>>),
                                     Box(<<1, 0, 0>>, <<1, Height, 1>>),
                                     Box(<<0, 0, 0>>, <<2, Height, 1>>)},
                      destinationPoint \in {-1, 0, ChunkSize - 1} \X {-1, 0, 1} \X {0} :
                          copyBlocksFrom(sourceBox, destinationPoint)]_vars

\* ------------------------------------------------------------ properties
present(c) == c \in DOMAIN presentChunks
fileExists(c) == files[fileOf(c)] # None

\* the lifecycle states of a chunk
Materialized(ch) == ch.root_tag # None /\ ch.root_tag.kind = "tree"
Unloaded(ch) == ch.root_tag = None /\ ch.compressedTag = None

\* a blob that parses to a tag tree with the chunk's fields
WellFormedBlob(b) == b # None /\ b.kind = "blob" /\ b.tag.kind = "tree"

\* the data getChunk works from: the arrays if set, else the cached blob, else
\* the file
WellFormedData(ch, file) ==
    IF ch.root_tag # None THEN ch.root_tag.kind = "tree"
    ELSE IF ch.compressedTag # None THEN WellFormedBlob(ch.compressedTag)
    ELSE WellFormedBlob(file)

\* C1: a coordinate is a key of _presentChunks iff its chunk file exists
C1_PresentIffFile == \A c \in Coords : present(c) <=> fileExists(c)

\* C2: when createChunk returns on an absent coordinate, the chunk's file
\* exists and holds the zero chunk with TerrainPopulated = 1 and its position
C2_CreateChunkSaves ==
    (ret.op = "createChunk" /\ ret.exc = "None") =>
        /\ fileExists(ret.c)
        /\ files[fileOf(ret.c)] = Serialize(packTree(createTree(ret.c)))

\* C3: after deleteChunk the coordinate is not a key and its file is gone
C3_DeleteChunkRemoves ==
    ret.op = "deleteChunk" => ~present(ret.c) /\ ~fileExists(ret.c)

\* C4: a chunk whose cached blob does not parse to a well-formed tree is no
\* longer a key once getChunk has run on it, and getChunk has not returned it
C4_GetChunkMalformed ==
    (ret.op = "getChunk" /\ present(ret.c)
        /\ presentChunks[ret.c].compressedTag # None
        /\ ~WellFormedBlob(presentChunks[ret.c].compressedTag)) => FALSE

\* C5: getChunk on a coordinate that is not a key raises ChunkNotPresent and
\* changes neither the store nor the files; on a key with well-formed data it
\* returns the chunk with its tree set and the nibble arrays at full height,
\* holding what the blob unpacks to when the step loaded it
GetChunkStep ==
    ret'.op = "getChunk" =>
        LET c == ret'.c
        IN /\ ~present(c) =>
                 ret'.exc = "ChunkNotPresent" /\ UNCHANGED <<presentChunks, files>>
           /\ (present(c) /\ WellFormedData(presentChunks[c], files[fileOf(c)])) =>
                 /\ ret'.exc = "None" /\ ret'.val = 1
                 /\ c \in DOMAIN presentChunks'
                 /\ Materialized(presentChunks'[c])
                 /\ DOMAIN presentChunks'[c].root_tag.Data = Cells
                 /\ DOMAIN presentChunks'[c].root_tag.SkyLight = Cells
                 /\ DOMAIN presentChunks'[c].root_tag.BlockLight = Cells
                 /\ presentChunks[c].root_tag = None =>
                        presentChunks'[c].root_tag =
                            unpackTree(presentChunks'[c].compressedTag.tag)

\* C5: every step of the store is a GetChunkStep: getChunk on an absent
\* coordinate raises ChunkNotPresent and changes nothing, and on a key with
\* well-formed data returns the chunk materialized
C5_GetChunk == [][GetChunkStep]_vars

\* a getChunk that read the file of an unloaded chunk and returned it
C5_Witness ==
    /\ ret.op = "getChunk" /\ ret.val = 1
    /\ stage[ret.c] = "reopened"
    /\ Materialized(presentChunks[ret.c])
    /\ presentChunks[ret.c].root_tag.Blocks[<<0, 0, 0>>] = 5

\* C6: blocks written through fillBlocks (which marks them with chunkChanged)
\* and then written by a save are read back by blockAt on a store opened
\* afresh on the same directory
C6_DurabilityRoundTrip ==
    (ret.op = "blockAt" /\ ret.c[2] \in 0 .. Height - 1
        /\ <<ChunkOf(ret.c[1]), ChunkOf(ret.c[3])>> \in Coords
        /\ stage[<<ChunkOf(ret.c[1]), ChunkOf(ret.c[3])>>] = "reopened") =>
        /\ ret.exc = "None"
        /\ ret.val = expect[<<ChunkOf(ret.c[1]), ChunkOf(ret.c[3])>>]
                           [<<InChunk(ret.c[1]), InChunk(ret.c[3]), ret.c[2]>>]

\* block 5 read back after the reopen
C6_Witness ==
    /\ ret.op = "blockAt" /\ ret.exc = "None" /\ ret.val = 5
    /\ ret.c = <<ChunkSize - 1, Height - 1, ChunkSize - 1>>
    /\ stage[<<0, 0>>] = "reopened"


\* C7: chunkChanged on a chunk that holds arrays or a cached blob leaves
\* dirty, needsCompression and needsLighting all set
C7_ChunkChangedFlags ==
    (ret.op = "chunkChanged" /\ ret.exc = "None" /\ present(ret.c)
        /\ ~Unloaded(presentChunks[ret.c])) =>
        /\ presentChunks[ret.c].dirty
        /\ presentChunks[ret.c].needsCompression
        /\ presentChunks[ret.c].needsLighting

\* C8: compress on a materialized chunk leaves a cached blob, needsCompression
\* false and no arrays, and compressing the result again changes nothing;
\* compress on a chunk without arrays changes nothing at all
CompressStep ==
    (ret'.op = "compress" /\ present(ret'.c)) =>
        LET ch == presentChunks[ret'.c]
            after == presentChunks'[ret'.c]
        IN /\ UNCHANGED files
           /\ Materialized(ch) =>
                 /\ ret'.exc = "None"
                 /\ after.compressedTag # None
                 /\ ~after.needsCompression
                 /\ after.root_tag = None
                 /\ after.dirty = ch.dirty /\ after.needsLighting = ch.needsLighting
                 /\ compress(after) = R(after, "None")
           /\ ch.root_tag = None => after = ch /\ ret'.exc = "None"

\* C8: every step of the store is a CompressStep: compress leaves a
\* materialized chunk COMPRESSED, and is a no-op when repeated or when nothing
\* is materialized
C8_CompressIdempotent == [][CompressStep]_vars

\* compress has packed a filled, dirty chunk into its blob
C8_Witness ==
    /\ ret.op = "compress" /\ present(ret.c)
    /\ presentChunks[ret.c].dirty
    /\ presentChunks[ret.c].root_tag = None
    /\ WellFormedBlob(presentChunks[ret.c].compressedTag)
    /\ presentChunks[ret.c].compressedTag.tag.Blocks[<<0, 0, 0>>] = 5

NibblesInRange(t) ==
    \A cell \in Cells :
        /\ t.Data[cell] \in 0 .. NibbleMask
        /\ t.SkyLight[cell] \in 0 .. NibbleMask
        /\ t.BlockLight[cell] \in 0 .. NibbleMask

\* C9: for a loaded chunk whose nibble cells are in 0..15, compress followed
\* by decompress gives back the Blocks, Data and HeightMap held before.
\* The arrays change only in fillBlocks and chunkChanged, both of which call
\* chunkChanged after the change, so every change of a reachable chunk is marked
C9_CompressDecompress ==
    \A c \in DOMAIN presentChunks :
        LET ch == presentChunks[c]
            back == decompress(compress(ch).ch)
        IN (Materialized(ch) /\ NibblesInRange(ch.root_tag)) =>
              /\ Materialized(back)
              /\ back.root_tag.Blocks = ch.root_tag.Blocks
              /\ back.root_tag.Data = ch.root_tag.Data
              /\ back.root_tag.HeightMap = ch.root_tag.HeightMap

\* C10: unpacking gives two cells per packed byte, the low nibble at cell 2k
\* and the high nibble at cell 2k+1, and packing the result gives the bytes back
C10_NibbleRoundTrip ==
    /\ nib.at \in {"unpacked", "repacked"} =>
          /\ DOMAIN nib.u = (0 .. 0) \X (0 .. 0) \X (0 .. 2 * PackLen - 1)
          /\ \A q \in DOMAIN nib.x :
                /\ nib.u[<<q[1], q[2], 2 * q[3]>>] = nib.x[q] % 16
                /\ nib.u[<<q[1], q[2], 2 * q[3] + 1>>] = nib.x[q] \div 16
    /\ nib.at = "repacked" => nib.r = nib.x

\* the byte 0xA5 unpacked to 5 and 10 and packed again
C10_Witness ==
    /\ nib.at = "repacked"
    /\ nib.x[<<0, 0, 0>>] = 165
    /\ nib.u[<<0, 0, 0>>] = 5 /\ nib.u[<<0, 0, 1>>] = 10
    /\ nib.r[<<0, 0, 0>>] = 165

\* C11: save leaves the file of a chunk that is not dirty untouched, and for a
\* dirty chunk whose write succeeds the file holds the chunk's cached blob and
\* dirty is cleared
C11_SaveWritesWhenDirty ==
    \A c \in DOMAIN presentChunks : \A o \in WriteOutcomes, rep \in BOOLEAN :
        LET ch == presentChunks[c]
            s == save(ch, files[fileOf(c)], o, rep)
        IN s.exc = "None" =>
              /\ ~ch.dirty => s.file = files[fileOf(c)] /\ ~s.ch.dirty
              /\ (ch.dirty /\ o = "ok") =>
                    /\ s.ch.compressedTag # None
                    /\ s.file = s.ch.compressedTag
                    /\ ~s.ch.dirty

\* a save has written the blob of a filled chunk, and a save of the chunk as
\* it is now would leave that file alone
C11_Witness ==
    /\ ret.op = "save" /\ ret.exc = "None" /\ present(ret.c)
    /\ ~presentChunks[ret.c].dirty
    /\ WellFormedBlob(files[fileOf(ret.c)])
    /\ files[fileOf(ret.c)] = presentChunks[ret.c].compressedTag
    /\ files[fileOf(ret.c)].tag.Blocks[<<0, 0, 0>>] = 5

\* C12: whatever the outcome of the write steps of a save on a dirty chunk
\* that has a file, afterwards the file holds the whole new blob or the whole
\* previous content is still there, as the file or as its .old sibling
C12_AtomicSave ==
    \A c \in DOMAIN presentChunks : \A o \in WriteOutcomes, rep \in BOOLEAN :
        LET ch == compress(presentChunks[c]).ch
            prev == files[fileOf(c)]
            w == saveSteps(ch.compressedTag, prev, o, rep)
        IN (ch.dirty /\ prev # None /\ save(presentChunks[c], prev, o, rep).exc = "None") =>
              /\ save(presentChunks[c], prev, o, rep).file = w.file
              /\ \/ w.file = ch.compressedTag
                 \/ w.file = prev
                 \/ w.old = prev

\* C13: after any sequence of edge setters on a box that started with
\* non-negative size, every size component is non-negative
C13_SizeNonNegative ==
    box.op # "idle" => \A i \in 1 .. 3 : box.b.size[i] >= 0

\* the edge setters and the axis each works on
MinSetters == {"setMinx", "setMiny", "setMinz"}
MaxSetters == {"setMaxx", "setMaxy", "setMaxz"}
AxisOf(op) == IF op \in {"setMinx", "setMaxx"} THEN 1
              ELSE IF op \in {"setMiny", "setMaxy"} THEN 2 ELSE 3

BoxSetterStep ==
    box'.op \in MinSetters \cup MaxSetters =>
        LET a == AxisOf(box'.op)
        IN /\ box'.op \in MinSetters =>
                 /\ box'.b.origin[a] = box'.arg
                 /\ box'.b.origin[a] + box'.b.size[a] = box.b.origin[a] + box.b.size[a]
           /\ box'.op \in MaxSetters => box'.b.origin[a] = box.b.origin[a]
           /\ \A i \in (1 .. 3) \ {a} :
                 /\ box'.b.origin[i] = box.b.origin[i]
                 /\ box'.b.size[i] = box.b.size[i]

\* C14: a minimum-edge setter leaves the maximum edge of its axis where it
\* was, a maximum-edge setter leaves the minimum edge where it was, and both
\* leave the two other axes alone
C14_SetterFrame == [][BoxSetterStep]_vars

\* minx moved to 1 inside a box that still ends at ChunkSize, and maxz moved
\* on a box whose origin stayed
C14_Witness ==
    /\ box.op = "setMinx" /\ box.arg = 1
    /\ box.b.origin = <<1, 0, 0>>
    /\ box.b.size = <<ChunkSize - 1, Height, ChunkSize>>

\* the chunk coordinates whose footprint meets the X/Z extent of b
Intersecting(b) ==
    {<<ChunkOf(x), ChunkOf(z)>> : x \in minx(b) .. maxx(b) - 1, z \in minz(b) .. maxz(b) - 1}

\* C15: chunkPositions of a box with non-negative size lists exactly the
\* chunk coordinates whose footprint meets the box, each once, cx outer and
\* cz inner; none when the X or Z size is zero
C15_ChunkPositions ==
    (box.op = "chunkPositions" /\ box.b.size[1] >= 0 /\ box.b.size[3] >= 0) =>
        /\ {box.out[i] : i \in DOMAIN box.out} = Intersecting(box.b)
        /\ \A i, j \in DOMAIN box.out :
              i < j => \/ box.out[i][1] < box.out[j][1]
                       \/ /\ box.out[i][1] = box.out[j][1]
                          /\ box.out[i][2] < box.out[j][2]

\* whether the triple t covers the world column (x, z)
Covers(t, x, z) ==
    /\ t.c = <<ChunkOf(x), ChunkOf(z)>>
    /\ InChunk(x) \in t.sl.xs
    /\ InChunk(z) \in t.sl.zs

SetMin(S) == CHOOSE m \in S : \A n \in S : m <= n

\* C16: on a box with positive X and Z size whose chunks are all present,
\* getChunkSlices yields one triple per intersecting chunk; every column of the
\* box is covered by exactly one triple, at its local index in its chunk; no
\* triple covers a column outside the box; and the offset of a triple is where
\* its slice starts, relative to the minimum corner of the box
C16_SlicesTile ==
    (box.op = "getChunkSlices" /\ box.b.size[1] > 0 /\ box.b.size[3] > 0) =>
        LET b == box.b
            out == box.out
        IN /\ Len(out) = Cardinality(Intersecting(b))
           /\ {out[i].c : i \in DOMAIN out} = Intersecting(b)
           /\ \A x \in minx(b) .. maxx(b) - 1, z \in minz(b) .. maxz(b) - 1 :
                 Cardinality({i \in DOMAIN out : Covers(out[i], x, z)}) = 1
           /\ \A i \in DOMAIN out :
                 /\ out[i].sl.xs # {} /\ out[i].sl.zs # {}
                 /\ \A lx \in out[i].sl.xs :
                       ChunkBase(out[i].c[1]) + lx \in minx(b) .. maxx(b) - 1
                 /\ \A lz \in out[i].sl.zs :
                       ChunkBase(out[i].c[2]) + lz \in minz(b) .. maxz(b) - 1
                 /\ out[i].sl.point =
                       <<ChunkBase(out[i].c[1]) + SetMin(out[i].sl.xs) - minx(b), 0,
                         ChunkBase(out[i].c[2]) + SetMin(out[i].sl.zs) - minz(b)>>

\* four triples for a box that starts at (-1, -1) and spans four chunks
C16_Witness ==
    /\ box.op = "getChunkSlices"
    /\ box.b.origin[1] = -1 /\ box.b.origin[3] = -1
    /\ box.b.size[1] = ChunkSize /\ box.b.size[3] = ChunkSize
    /\ Len(box.out) = 4
    /\ box.out[1].c = <<-1, -1>>
    /\ box.out[4].sl.point = <<1, 0, 1>>

\* the flags of a chunk
Flags(ch) == <<ch.dirty, ch.needsCompression, ch.needsLighting>>

GetChunkSlicesStep ==
    ret'.op = "getChunkSlices" =>
        /\ DOMAIN presentChunks' = DOMAIN presentChunks
        /\ files' = files
        /\ ret'.exc # "ChunkNotPresent"
        /\ (\A c \in DOMAIN presentChunks :
                WellFormedData(presentChunks[c], files[fileOf(c)])) => ret'.exc = "None"
        /\ ret'.val <= Cardinality(DOMAIN presentChunks)
        /\ \A c \in DOMAIN presentChunks :
              LET ch == presentChunks[c]
                  after == presentChunks'[c]
              IN /\ Flags(after) = Flags(ch)
                 /\ ch.root_tag # None => after.root_tag = ch.root_tag
                 /\ ch.compressedTag # None => after.compressedTag = ch.compressedTag
                 /\ (ch.root_tag = None /\ after.root_tag # None
                        /\ after.root_tag.kind = "tree") =>
                       after.root_tag = unpackTree(after.compressedTag.tag)
                 /\ ch.compressedTag = None =>
                       after.compressedTag \in {None, files[fileOf(c)]}

\* C17: getChunkSlices iterated to the end skips the absent coordinates of
\* the box without raising and without adding a key, and changes no flag and
\* no array cell of any chunk: a chunk it loads holds what its blob unpacks to
C17_SlicesNoMarking == [][GetChunkSlicesStep]_vars

\* the strip across chunks (-1,0) and (0,0) on a world that holds only (0,0),
\* filled and saved: one triple, chunk (-1,0) still absent, (0,0) not dirty
C17_Witness ==
    /\ ret.op = "getChunkSlices" /\ ret.c = <<-1, 1, 0>>
    /\ ret.exc = "None" /\ ret.val = 1
    /\ DOMAIN presentChunks = {<<0, 0>>}
    /\ Materialized(presentChunks[<<0, 0>>])
    /\ ~presentChunks[<<0, 0>>].dirty
    /\ presentChunks[<<0, 0>>].root_tag.Blocks[<<0, 0, 1>>] = 5

\* the boxes createChunksInRange is called with
RangeBoxes == {b \in Boxes : \A i \in DOMAIN chunkPositions(b) : chunkPositions(b)[i] \in Coords}

CreateChunksInRangeStep ==
    ret'.op = "createChunksInRange" =>
        /\ ret'.exc = "None"
        /\ \A c \in DOMAIN presentChunks :
              /\ c \in DOMAIN presentChunks'
              /\ presentChunks'[c] = presentChunks[c]
              /\ files'[fileOf(c)] = files[fileOf(c)]
        /\ \E b \in RangeBoxes :
              /\ \A i \in DOMAIN chunkPositions(b) :
                    chunkPositions(b)[i] \in DOMAIN presentChunks'
              /\ \A o \in WriteOutcomes, rep \in BOOLEAN :
                    createFrom(presentChunks', files', b, 1, o, rep) =
                        [pc |-> presentChunks', fs |-> files']

\* C18: after createChunksInRange every chunk position of the box is present,
\* the chunks that were present keep their data, flags and file, and a second
\* call with the same box changes nothing and raises nothing
C18_CreateRangeIdempotent == [][CreateChunksInRangeStep]_vars

\* createChunksInRange on a world whose chunk (0,0) was filled: nothing is
\* created and the chunk still holds its blocks and its flags
C18_Witness ==
    /\ ret.op = "createChunksInRange" /\ ret.val = 0
    /\ present(<<0, 0>>)
    /\ Materialized(presentChunks[<<0, 0>>])
    /\ presentChunks[<<0, 0>>].dirty
    /\ presentChunks[<<0, 0>>].root_tag.Blocks[<<0, 0, 0>>] = 5

CreateChunkStep ==
    (ret'.op = "createChunk" /\ ret'.c \in DOMAIN presentChunks) =>
        /\ ret'.exc = "ValueError"
        /\ UNCHANGED <<presentChunks, files>>

\* C19: createChunk on a coordinate that is a key raises ValueError and
\* leaves the store, the chunk and its file as they were
C19_CreateChunkPresent == [][CreateChunkStep]_vars

\* createChunk refused on a chunk that holds filled blocks not yet saved
C19_Witness ==
    /\ ret.op = "createChunk" /\ ret.exc = "ValueError"
    /\ present(ret.c)
    /\ Materialized(presentChunks[ret.c])
    /\ presentChunks[ret.c].dirty
    /\ presentChunks[ret.c].root_tag.Blocks[<<0, 0, 0>>] = 5

\* C20: dirhash gives different labels to different residues 0..63 and the
\* same label to integers with the same residue mod 64, negative ones
\* included; decbase36 of the label is the residue; and dirhashlookup returns
\* the label dirhash returns
C20_DirhashBijection ==
    /\ \A a, b \in 0 .. 63 : dirhash(a) = dirhash(b) => a = b
    /\ hash.op \in {"dirhash", "dirhashlookup", "decbase36"} =>
          \A k \in HashInputs : k % 64 = hash.n % 64 => dirhash(k) = hash.label
    /\ hash.op \in {"dirhashlookup", "decbase36"} => hash.looked = hash.label
    /\ hash.op = "decbase36" => hash.dec = hash.n % 64

\* -1 has the label of 63, "1r", which decodes to 63
C20_Witness ==
    /\ hash.op = "decbase36" /\ hash.n = -1
    /\ hash.label = <<"1", "r">> /\ hash.looked = <<"1", "r">>
    /\ hash.dec = 63

\* C21: once an existing world directory has been opened, the keys are
\* exactly the coordinates whose chunk file exists, negative ones included,
\* and every chunk is unloaded with its three flags false
C21_ScanRegistersFiles ==
    ret.op = "open" =>
        /\ DOMAIN presentChunks =
              {c \in ScanCoords \cup Coords :
                  fileOf(c) \in DOMAIN files /\ files[fileOf(c)] # None}
        /\ \A c \in DOMAIN presentChunks :
              /\ Unloaded(presentChunks[c])
              /\ Flags(presentChunks[c]) = <<FALSE, FALSE, FALSE>>

\* a directory that holds the files of (-37,1295) and (1296,-1296) and not
\* the file of (0,0)
C21_Witness ==
    /\ ret.op = "open"
    /\ DOMAIN files = {fileOf(c) : c \in ScanCoords}
    /\ {<<-37, 1295>>, <<1296, -1296>>} \subseteq DOMAIN presentChunks
    /\ <<0, 0>> \notin DOMAIN presentChunks
    /\ files[fileOf(<<-37, 1295>>)] # None

\* C25: blockAt at a coordinate outside the world (y below 0, y at or above
\* Height, or a column whose chunk is not a key) returns 0 without raising
C25_BlockAtOutside ==
    (/\ ret.op = "blockAt"
     /\ \/ ret.c[2] < 0
        \/ ret.c[2] >= Height
        \/ ~present(<<ChunkOf(ret.c[1]), ChunkOf(ret.c[3])>>)) =>
        ret.exc = "None" /\ ret.val = 0

\* C26: after chunkChanged has run generateHeightMap, HeightMap[z,x] of every
\* column is one more than the highest absorbing y, and 0 for a column in
\* which no block absorbs light
C26_HeightMap ==
    (ret.op = "chunkChanged" /\ ret.exc = "None" /\ present(ret.c)) =>
        LET t == presentChunks[ret.c].root_tag
        IN \A zx \in Columns :
              LET ys == {y \in 0 .. Height - 1 :
                            lightAbsorption[t.Blocks[<<zx[2], zx[1], y>>]] # 0}
              IN t.HeightMap[zx] =
                    IF ys = {} THEN 0 ELSE 1 + CHOOSE y \in ys : \A w \in ys : w <= y

\* C27: after chunkChanged with lighting recalculation, SkyLight is 15 at and
\* above the height map value of each column and 0 below it
C27_FastLights ==
    (ret.op = "chunkChanged" /\ ret.exc = "None" /\ present(ret.c)) =>
        LET t == presentChunks[ret.c].root_tag
        IN \A c \in Cells :
              t.SkyLight[c] = IF c[3] >= t.HeightMap[<<c[2], c[1]>>] THEN 15 ELSE 0

\* the world cell (x,y,z) lies in box b
InBox(b, x, y, z) ==
    /\ minx(b) <= x /\ x < maxx(b)
    /\ miny(b) <= y /\ y < maxy(b)
    /\ minz(b) <= z /\ z < maxz(b)

\* a fillBlocks(b, t, d) step that returns: every present chunk the box meets
\* holds t and d at its cells inside the box and what it held (after loading)
\* at its other cells, and is dirty; every other chunk is unchanged
FillBlocksStep(b, t, d) ==
    (ret'.op = "fillBlocks" /\ ret'.exc = "None" /\ fillBlocks(b, t, d)) =>
        /\ DOMAIN presentChunks' = DOMAIN presentChunks
        /\ \A c \in DOMAIN presentChunks :
              IF \E i \in DOMAIN chunkPositions(b) : chunkPositions(b)[i] = c
              THEN LET before == load(presentChunks[c], files[fileOf(c)]).ch.root_tag
                       after == presentChunks'[c].root_tag
                   IN /\ Materialized(presentChunks'[c])
                      /\ presentChunks'[c].dirty
                      /\ \A cell \in Cells :
                            IF InBox(b, ChunkBase(c[1]) + cell[1], cell[3],
                                     ChunkBase(c[2]) + cell[2])
                            THEN after.Blocks[cell] = t /\ after.Data[cell] = d
                            ELSE /\ after.Blocks[cell] = before.Blocks[cell]
                                 /\ after.Data[cell] = before.Data[cell]
              ELSE presentChunks'[c] = presentChunks[c]

\* C28: fillBlocks(box, t, d) sets Blocks to t and Data to d at every cell of
\* the box in a present chunk, leaves the cells outside the box as they were,
\* and leaves every chunk it touched dirty
C28_FillBlocks ==
    [][\A b \in Boxes, t \in BlockTypes, d \in DataValues : FillBlocksStep(b, t, d)]_vars

\* fillBlocks has returned from a chunk it filled in part: the chunk is dirty
\* and holds both filled and untouched cells
C28_Witness ==
    /\ ret.op = "fillBlocks" /\ ret.exc = "None" /\ ret.val = 1
    /\ \E c \in DOMAIN presentChunks :
          /\ Materialized(presentChunks[c])
          /\ presentChunks[c].dirty
          /\ \E p, q \in Cells :
                /\ presentChunks[c].root_tag.Blocks[p] = 5
                /\ presentChunks[c].root_tag.Data[p] = 17
                /\ presentChunks[c].root_tag.Blocks[q] = 0

\* a saveInPlace step that returns with every write having succeeded: no chunk
\* is dirty, holds arrays or needs compression, and the file of every chunk
\* that was dirty holds the chunk's blob
SaveInPlaceStep(order, outs, rep) ==
    (/\ ret'.op = "saveInPlace" /\ ret'.exc = "None"
     /\ \A c \in Coords : outs[c] = "ok"
     /\ saveInPlace(order, outs, rep)) =>
        /\ DOMAIN presentChunks' = DOMAIN presentChunks
        /\ ret'.val = Cardinality({c \in DOMAIN presentChunks : presentChunks[c].dirty})
        /\ \A c \in DOMAIN presentChunks :
              /\ ~presentChunks'[c].dirty
              /\ presentChunks'[c].root_tag = None
              /\ ~presentChunks'[c].needsCompression
              /\ presentChunks[c].dirty =>
                    /\ presentChunks'[c].compressedTag # None
                    /\ files'[fileOf(c)] = presentChunks'[c].compressedTag
              /\ ~presentChunks[c].dirty => files'[fileOf(c)] = files[fileOf(c)]

\* C29: when saveInPlace returns and no write failed, no present chunk is
\* dirty, every chunk that was dirty has its current blob in its file, and no
\* present chunk holds arrays or has needsCompression set
C29_SaveInPlace ==
    [][\A order \in Orders(DOMAIN presentChunks), outs \in [Coords -> WriteOutcomes],
          rep \in BOOLEAN : SaveInPlaceStep(order, outs, rep)]_vars

\* saveInPlace has returned after writing one dirty chunk whose blocks came
\* from fillBlocks: the chunk is clean and compressed and its file holds its blob
C29_Witness ==
    /\ ret.op = "saveInPlace" /\ ret.exc = "None" /\ ret.val = 1
    /\ \E c \in DOMAIN presentChunks :
          /\ stage[c] = "saved"
          /\ ~presentChunks[c].dirty
          /\ presentChunks[c].root_tag = None
          /\ presentChunks[c].compressedTag # None
          /\ files[fileOf(c)] = presentChunks[c].compressedTag

\* C22: the light cells of every chunk are in 0..15 before generateLights,
\* and then every array generateLights assigns during its passes (to a chunk,
\* to a neighbour or to the ZeroChunk, in uint8 arithmetic) and every light
\* cell afterwards is in 0..15
C22_LightsInRange ==
    /\ \A c \in DOMAIN presentChunks :
          Materialized(presentChunks[c]) =>
              \A cell \in Cells :
                  /\ presentChunks[c].root_tag.BlockLight[cell] \in 0 .. 15
                  /\ presentChunks[c].root_tag.SkyLight[cell] \in 0 .. 15
    /\ ret.op = "generateLights" => ret.val.ok

\* generateLights has returned after a torch in chunk (0,0) lit chunk (1,0)
\* across the border: the planks facing the torch hold 0 (the subtraction
\* wrapped and was reset), the air above them holds 12
C22_Witness ==
    /\ ret.op = "generateLights" /\ ret.exc = "None" /\ ret.val.ok
    /\ LightCoords \subseteq DOMAIN presentChunks
    /\ Materialized(presentChunks[<<0, 0>>]) /\ Materialized(presentChunks[<<1, 0>>])
    /\ presentChunks[<<0, 0>>].root_tag.Blocks[<<Last, 0, 0>>] = 50
    /\ presentChunks[<<0, 0>>].root_tag.BlockLight[<<Last, 0, 0>>] = 14
    /\ presentChunks[<<1, 0>>].root_tag.Blocks[<<0, 0, 0>>] = 5
    /\ presentChunks[<<1, 0>>].root_tag.BlockLight[<<0, 0, 0>>] = 0
    /\ presentChunks[<<1, 0>>].root_tag.BlockLight[<<0, 0, 1>>] = 12

\* a generateLights step: it never raises ChunkNotPresent, and when it
\* returns the chunks it worked on are the present ones that needed lighting
\* (no argument) or the given coordinates that are keys; these are loaded,
\* dirty and no longer need lighting, the flags of every other chunk are as
\* they were, and no key is added or removed
GenerateLightsStep ==
    ret'.op = "generateLights" =>
        LET S == IF ret'.c.given
                 THEN {ret'.c.coords[i] : i \in 1 .. Len(ret'.c.coords)}
                          \cap DOMAIN presentChunks
                 ELSE {c \in DOMAIN presentChunks : presentChunks[c].needsLighting}
        IN /\ ret'.exc # "ChunkNotPresent"
           /\ ret'.exc = "None" =>
                 /\ DOMAIN presentChunks' = DOMAIN presentChunks
                 /\ \A c \in DOMAIN presentChunks :
                       IF c \in S
                       THEN /\ ~presentChunks'[c].needsLighting
                            /\ presentChunks'[c].dirty
                            /\ Materialized(presentChunks'[c])
                            /\ \A cell \in Cells :
                                  presentChunks'[c].root_tag.BlockLight[cell] >=
                                      lightEmission[presentChunks'[c].root_tag.Blocks[cell]]
                       ELSE Flags(presentChunks'[c]) = Flags(presentChunks[c])

\* C23: generateLights() works on exactly the present chunks whose
\* needsLighting is set and generateLights(coords) on exactly the given
\* coordinates that are present, absent ones being ignored without error; when
\* it returns needsLighting is false on those chunks and unchanged on others
C23_LightingCleared == [][GenerateLightsStep]_vars

\* generateLights was given both coordinates while (1,0) was not a key and
\* has returned: (0,0) was worked on and no longer needs lighting
C23_Witness ==
    /\ ret.op = "generateLights" /\ ret.exc = "None"
    /\ ret.c.given /\ ret.c.coords = <<<<0, 0>>, <<1, 0>>>>
    /\ DOMAIN presentChunks = {<<0, 0>>}
    /\ presentChunks[<<0, 0>>].dirty
    /\ ~presentChunks[<<0, 0>>].needsLighting
    /\ presentChunks[<<0, 0>>].root_tag.BlockLight[<<Last, 0, 0>>] = 14

\* C24: when a lateral neighbour of a chunk generateLights works on is a key
\* but does not load, generateLights still returns and needsLighting is
\* cleared on the chunks it worked on
C24_NeighbourSkipped ==
    (/\ ret.op = "generateLights"
     /\ \E c \in ret.val.processed, i \in DOMAIN LightDirs :
           LET n == <<c[1] + LightDirs[i][1], c[2] + LightDirs[i][2]>>
           IN /\ n \in DOMAIN presentChunks
              /\ n \notin ret.val.processed
              /\ ~WellFormedData(presentChunks[n], files[fileOf(n)])) =>
        /\ ret.exc = "None"
        /\ \A c \in ret.val.processed : ~presentChunks[c].needsLighting

\* C30: when copyBlocksFrom from a finite level returns, every source cell of
\* sourceBox whose destination, destinationPoint + (cell - sourceBox.origin),
\* lies in a present chunk and inside the height range holds the converted
\* source block at exactly that destination
C30_CopyExact ==
    (ret.op = "copyBlocksFrom" /\ ret.exc = "None") =>
        \A s \in DOMAIN sourceLevel.Blocks :
            LET b == ret.c.box
                d == <<ret.c.point[1] + s[1] - minx(b),
                       ret.c.point[2] + s[3] - miny(b),
                       ret.c.point[3] + s[2] - minz(b)>>
                c == <<ChunkOf(d[1]), ChunkOf(d[3])>>
            IN (/\ InBox(b, s[1], s[3], s[2])
                /\ c \in DOMAIN presentChunks
                /\ d[2] \in 0 .. Height - 1) =>
                   presentChunks[c].root_tag.Blocks[<<InChunk(d[1]), InChunk(d[3]), d[2]>>] =
                       conversionTable[sourceLevel.Blocks[s]]


C32_MaxMerge ==
    /\ ret.op = "generateLights" => ret.val.mono
    /\ (/\ LightCoords \subseteq DOMAIN presentChunks
        /\ \A c \in LightCoords : Materialized(presentChunks[c])) =>
           \A light \in {"BlockLight", "SkyLight"} :
               LET this == presentChunks[<<0, 0>>].root_tag
                   nc == presentChunks[<<1, 0>>].root_tag
                   out == EdgeOut(this[light], nc[light], nc.Blocks, dispersalLa, 1, Last, 0)
               IN \A cell \in Cells :
                     LET sent == this[light][[cell EXCEPT ![1] = Last]]
                                     - dispersalLa[nc.Blocks[cell]] - 1
                     IN out[cell] = IF cell[1] # 0 THEN nc[light][cell]
                                    ELSE IF sent > nc[light][cell] THEN sent
                                    ELSE nc[light][cell]

\* generateLights has returned after its passes raised cells of both chunks:
\* the torch light crossed into chunk (1,0), whose top cells kept the sky
\* light 15 they already held
C32_Witness ==
    /\ ret.op = "generateLights" /\ ret.exc = "None" /\ ret.val.mono
    /\ ret.val.processed = LightCoords
    /\ presentChunks[<<0, 0>>].root_tag.BlockLight[<<0, 0, 0>>] = 13
    /\ presentChunks[<<1, 0>>].root_tag.BlockLight[<<0, 0, 0>>] = 13
    /\ presentChunks[<<1, 0>>].root_tag.SkyLight[<<0, 0, Height - 1>>] = 15
    /\ presentChunks[<<1, 0>>].root_tag.SkyLight[<<0, 0, 0>>] >= 14


\* a generateLights step ends as generateLights would have ended from the
\* same world on any other order of the same coordinates: the same chunks
\* with the same arrays and flags, and the same exception or none
GenerateLightsOrderStep ==
    ret'.op = "generateLights" =>
        \A o \in Orders(IF ret'.c.given
                        THEN {ret'.c.coords[i] : i \in 1 .. Len(ret'.c.coords)}
                        ELSE {c \in DOMAIN presentChunks : presentChunks[c].needsLighting}) :
            LET r == lightChunks(presentChunks, files,
                                 SelectSeq(o, LAMBDA c : c \in DOMAIN presentChunks))
            IN r.pc = presentChunks' /\ r.exc = ret'.exc

\* C33: two runs of generateLights from the same world on the same set of
\* coordinates given in different orders end with identical BlockLight and
\* SkyLight arrays and identical flags on every chunk
C33_OrderIndependent == [][GenerateLightsOrderStep]_vars

\* generateLights was given (1,0) before (0,0) and has returned: chunk (0,0)
\* was lit first all the same, and the torch light reached chunk (1,0)
C33_Witness ==
    /\ ret.op = "generateLights" /\ ret.exc = "None"
    /\ ret.c.given /\ ret.c.coords = <<<<1, 0>>, <<0, 0>>>>
    /\ ret.val.processed = LightCoords
    /\ presentChunks[<<0, 0>>].root_tag.BlockLight[<<Last, 0, 0>>] = 14
    /\ presentChunks[<<1, 0>>].root_tag.BlockLight[<<0, 0, 1>>] = 12
    /\ \A c \in LightCoords : ~presentChunks[c].needsLighting


\* C34: during generateLights the ZeroChunk's array is all zero whenever the
\* X exchanges, the Z exchanges or the vertical step of a chunk begin, and
\* taking light over an edge from the ZeroChunk never changes a cell of the
\* chunk
C34_ZeroChunkClean ==
    ret.op = "generateLights" => (ret.val.zclean /\ ret.val.zquiet)

\* generateLights has returned after lighting chunk (0,0) alone in the world:
\* all four of its neighbours were the ZeroChunk, which took the torch light
\* of its edge cells in every exchange
C34_Witness ==
    /\ ret.op = "generateLights" /\ ret.exc = "None"
    /\ ret.c.given /\ ret.c.coords = <<<<0, 0>>>>
    /\ DOMAIN presentChunks = {<<0, 0>>}
    /\ ret.val.zclean /\ ret.val.zquiet
    /\ presentChunks[<<0, 0>>].root_tag.BlockLight[<<Last, 0, 0>>] = 14
    /\ presentChunks[<<0, 0>>].root_tag.BlockLight[<<0, 0, 0>>] = 13
    /\ presentChunks[<<0, 0>>].root_tag.BlockLight[<<0, Last, 0>>] = 12


\* C35: when generateLights returns, every chunk whose BlockLight or SkyLight
\* it changed (compared with the arrays the chunk held, or would have loaded
\* from its blob or file, before the call), a lateral neighbour outside the
\* working set included, has dirty and needsCompression set
C35_LitChunksDirty ==
    [][(ret'.op = "generateLights" /\ ret'.exc = "None") =>
          \A c \in DOMAIN presentChunks' :
              LET before == load(presentChunks[c], files[fileOf(c)]).ch
                  after == presentChunks'[c]
              IN (/\ Materialized(before) /\ Materialized(after)
                  /\ \/ after.root_tag.BlockLight # before.root_tag.BlockLight
                     \/ after.root_tag.SkyLight # before.root_tag.SkyLight) =>
                    (after.dirty /\ after.needsCompression)]_vars


\* C36: a save of a dirty chunk whose file cannot be opened or written
\* returns with the chunk still dirty
C36_FailedSaveStaysDirty ==
    \A c \in DOMAIN presentChunks : \A o \in WriteOutcomes \ {"ok"}, rep \in BOOLEAN :
        LET s == save(presentChunks[c], files[fileOf(c)], o, rep)
        IN (presentChunks[c].dirty /\ s.exc = "None") => s.ch.dirty

\* C38: for a loaded chunk with changes to pack in which a Data, BlockLight
\* or SkyLight cell holds more than 15, compress followed by decompress gives
\* every cell of that array its own low 4 bits back, so the cell that shares
\* a packed byte with the large one reads as it was
C38_PackIsolatesCells ==
    \A c \in DOMAIN presentChunks :
        LET ch == presentChunks[c]
            back == decompress(compress(ch).ch)
        IN (Materialized(ch) /\ ch.needsCompression) =>
              \A name \in {"Data", "BlockLight", "SkyLight"} :
                  (\E cell \in Cells : ch.root_tag[name][cell] > NibbleMask) =>
                      /\ Materialized(back)
                      /\ \A cell \in Cells :
                            back.root_tag[name][cell] =
                                ch.root_tag[name][cell] % (NibbleMask + 1)


\* C37: every chunk held in _presentChunks with needsCompression set has its
\* arrays materialized (root_tag is set), and every one with dirty set holds
\* a blob or materialized arrays
C37_FlagsHaveData ==
    \A c \in DOMAIN presentChunks :
        /\ presentChunks[c].needsCompression => presentChunks[c].root_tag # None
        /\ presentChunks[c].dirty =>
              (presentChunks[c].compressedTag # None \/ presentChunks[c].root_tag # None)

\* generateLights has re-lit the chunk, which was then compressed: it is
\* dirty and holds only its blob, in which the torch light is packed, and the
\* compression has cleared needsCompression
C37_Witness ==
    /\ ret.op = "compress" /\ ret.exc = "None" /\ present(ret.c)
    /\ presentChunks[ret.c].dirty
    /\ ~presentChunks[ret.c].needsCompression
    /\ ~presentChunks[ret.c].needsLighting
    /\ presentChunks[ret.c].root_tag = None
    /\ WellFormedBlob(presentChunks[ret.c].compressedTag)
    /\ unpackTree(presentChunks[ret.c].compressedTag.tag).BlockLight[<<0, 0, 0>>] = 13
====
